---- MODULE Spec2Model ----
(***************************************************************************)
(* Model of the multi-symbol limit-order matching engine:                  *)
(*   crates/engine-core/src/order_book.rs      (OrderBook)                 *)
(*   crates/engine-core/src/matching_engine.rs (MatchingEngine)            *)
(*   crates/engine-core/src/order.rs, messages.rs                          *)
(*   crates/engine-protocol/src/binary_codec.rs, csv_codec.rs,             *)
(*   wire_types.rs                             (wire formats)              *)
(*   crates/engine-server/src/client.rs, engine_task.rs (front-ends)       *)
(* One action per InputMessage variant handled by process_message.  Each   *)
(* action is the whole handler, run to completion.                         *)
(***************************************************************************)
EXTENDS Integers, Sequences, FiniteSets, TLC

\* ------------------------------------------------------------------------
\* Bounds of the model
\* ------------------------------------------------------------------------
MaxUser == 2
MaxOrderId == 1
MaxPrice == 2
MaxQty == 2
MaxOrders == 2
MaxBookOrders == 3
MaxWireId == 1
MaxWirePrice == 1
MaxWireQty == 1
MaxFrontOrders == 1
MaxHeavyOrders == 3
MaxClientIds == 2
MaxRequests == 2
\* Config::max_clients, below the number of connections
max_clients == 1
MaxUniqueOrders == 3
MaxTwinOrders == 3
MaxTimestamp == 1
MaxPorts == 3
\* Config::from_env: the port when ENGINE_PORT is not set
DEFAULT_PORT == 9000
\* TLC integers end at 2^31 - 1: the u32 quantities of the engine are
\* narrowed to QtyBits bits, so that U32_MAX stands for u32::MAX
QtyBits == 16

Symbols == {"IBM", "AAPL"}
BookSymbols == {"IBM"}
UserIds == 1..MaxUser
UserOrderIds == 1..MaxOrderId
Prices == 0..MaxPrice
Quantities == 1..MaxQty
Sides == {"Buy", "Sell"}

VARIABLES
    order_books,      \* MatchingEngine.order_books : symbol -> OrderBook
    order_to_symbol,  \* MatchingEngine.order_to_symbol : (uid, uoid) -> symbol
    outputs,          \* Vec<OutputMessage> returned by the last process_message
    last_msg,         \* the InputMessage handled by the last process_message
    fills,            \* history: one record per fill of the last match_order
    clock,            \* number of orders created so far (arrival stamp source)
    tob_log,          \* history: last TopOfBook event of add/cancel per (symbol, side)
    tob_log_flush,    \* as tob_log, forgotten when the engine is flushed
    sent,             \* the message last handed to an encoder
    protocol,         \* "Binary" or "Csv": the front-end that read last
    wire,             \* the bytes of the last frame, the characters of the last line
    parsed,           \* what the decoder or parser made of wire
    decoder,          \* the function that made parsed
    clients,          \* ClientRegistry: the ids that map to an OutboundTx
    engine_rx,        \* the EngineRequests sent and not yet received
    outbound,         \* per client, what its outbound channel has accepted
    tasks,            \* per client, its reader task and its writer task
    engine_task,      \* run_engine_loop: its position and its locals
    arrived,          \* history: number of EngineRequests sent so far
    server,           \* run: its position, from the bind to its return
    listener,         \* bind_with_port_bump: its locals and its result
    ledger,           \* history: per order key, what was ordered and traded
    twin              \* a second engine, fed the same messages at other times

engine_vars == <<order_books, order_to_symbol, outputs, last_msg, fills,
                 clock, tob_log, tob_log_flush>>

front_vars == <<sent, protocol, wire, parsed, decoder>>

server_vars == <<clients, engine_rx, outbound, tasks, engine_task, arrived,
                 server, listener>>

observer_vars == <<ledger, twin>>

vars == <<order_books, order_to_symbol, outputs, last_msg, fills, clock,
          tob_log, tob_log_flush, sent, protocol, wire, parsed, decoder,
          clients, engine_rx, outbound, tasks, engine_task, arrived,
          server, listener, ledger, twin>>

\* ------------------------------------------------------------------------
\* Generic helpers
\* ------------------------------------------------------------------------
Max(S) == CHOOSE x \in S : \A y \in S : y <= x
Min(S) == CHOOSE x \in S : \A y \in S : x <= y

RemoveAt(q, i) == [k \in 1..(Len(q) - 1) |-> IF k < i THEN q[k] ELSE q[k + 1]]

\* BTreeMap::remove(&key)
MapRemove(m, k) == [p \in (DOMAIN m) \ {k} |-> m[p]]

\* BTreeMap::insert / entry().or_insert_with()
MapPut(m, k, v) == [p \in (DOMAIN m) \cup {k} |-> IF p = k THEN v ELSE m[p]]

EmptyMap == [p \in {} |-> <<>>]

\* ------------------------------------------------------------------------
\* messages.rs : constructors of OutputMessage
\* ------------------------------------------------------------------------
ack(user_id, user_order_id, symbol) ==
    [type |-> "Ack", user_id |-> user_id, user_order_id |-> user_order_id,
     symbol |-> symbol]

cancel_ack(user_id, user_order_id, symbol) ==
    [type |-> "CancelAck", user_id |-> user_id,
     user_order_id |-> user_order_id, symbol |-> symbol]

trade(symbol, user_id_buy, user_order_id_buy, user_id_sell, user_order_id_sell, price, quantity) ==
    [type |-> "Trade", symbol |-> symbol,
     user_id_buy |-> user_id_buy, user_order_id_buy |-> user_order_id_buy,
     user_id_sell |-> user_id_sell, user_order_id_sell |-> user_order_id_sell,
     price |-> price, quantity |-> quantity]

top_of_book(symbol, side, price, total_quantity) ==
    [type |-> "TopOfBook", symbol |-> symbol, side |-> side, price |-> price,
     total_quantity |-> total_quantity, eliminated |-> FALSE]

top_of_book_eliminated(symbol, side) ==
    [type |-> "TopOfBook", symbol |-> symbol, side |-> side, price |-> 0,
     total_quantity |-> 0, eliminated |-> TRUE]

\* NewOrder::order_type
order_type(price) == IF price = 0 THEN "Market" ELSE "Limit"

\* ------------------------------------------------------------------------
\* order.rs
\* ------------------------------------------------------------------------
\* Order::from_new_order ; timestamp_ns is the arrival stamp of the order
from_new_order(msg, timestamp_ns) ==
    [user_id |-> msg.user_id, user_order_id |-> msg.user_order_id,
     symbol |-> msg.symbol, price |-> msg.price, quantity |-> msg.quantity,
     remaining_qty |-> msg.quantity, side |-> msg.side,
     order_type |-> order_type(msg.price), timestamp_ns |-> timestamp_ns]

\* Order::is_filled
is_filled(o) == o.remaining_qty = 0

\* Mutant of fill: one unit is filled whatever the quantity
fill_one(o, qty) ==
    [o EXCEPT !.remaining_qty = o.remaining_qty - 1]

\* Order::fill
fill(o, qty) ==
    LET filled == IF qty < o.remaining_qty THEN qty ELSE o.remaining_qty
    IN  [o EXCEPT !.remaining_qty = o.remaining_qty - filled]

\* ------------------------------------------------------------------------
\* order_book.rs
\* ------------------------------------------------------------------------
\* OrderBook::new
new_book(symbol) ==
    [symbol |-> symbol, bids |-> EmptyMap, asks |-> EmptyMap,
     prev_best_bid_price |-> 0, prev_best_bid_qty |-> 0,
     prev_best_ask_price |-> 0, prev_best_ask_qty |-> 0]

\* u32::MAX at the width of the model
U32_MAX == 2^QtyBits - 1

\* OrderBook::total_quantity_at_price : Iterator::sum over u32, which wraps
\* in a release build
RECURSIVE total_quantity_at_price(_)
total_quantity_at_price(orders) ==
    IF orders = <<>> THEN 0
    ELSE (Head(orders).remaining_qty + total_quantity_at_price(Tail(orders)))
         % (U32_MAX + 1)

\* OrderBook::best_bid_price : highest key of bids, 0 if none
best_bid_price(book) ==
    IF DOMAIN book.bids = {} THEN 0 ELSE Max(DOMAIN book.bids)

\* OrderBook::best_ask_price : lowest key of asks, 0 if none
best_ask_price(book) ==
    IF DOMAIN book.asks = {} THEN 0 ELSE Min(DOMAIN book.asks)

\* OrderBook::best_bid_quantity
best_bid_quantity(book) ==
    IF DOMAIN book.bids = {} THEN 0
    ELSE total_quantity_at_price(book.bids[Max(DOMAIN book.bids)])

\* OrderBook::best_ask_quantity
best_ask_quantity(book) ==
    IF DOMAIN book.asks = {} THEN 0
    ELSE total_quantity_at_price(book.asks[Min(DOMAIN book.asks)])

\* Mutant of best_opposing_price: the worst opposing level is taken
best_opposing_price_worst(side, levels) ==
    IF side = "Buy" THEN Max(DOMAIN levels) ELSE Min(DOMAIN levels)

\* match_order, lines 259 and 320: the best opposing level is the lowest ask
\* key for a Buy and the highest bid key for a Sell
best_opposing_price(side, levels) ==
    IF side = "Buy" THEN Min(DOMAIN levels) ELSE Max(DOMAIN levels)

\* Mutant of can_match: a Limit order is never matched
can_match_never(order, best_price) ==
    order.order_type = "Market"

\* match_order, lines 266-269 and 326-329
can_match(order, best_price) ==
    IF order.order_type = "Market" THEN TRUE
    ELSE IF order.side = "Buy" THEN order.price >= best_price
         ELSE order.price <= best_price

\* Mutant of make_trade: the Trade carries the incoming order's price
make_trade_incoming_price(symbol, order, passive_order, level_price, trade_qty) ==
    IF order.side = "Buy"
    THEN trade(symbol, order.user_id, order.user_order_id,
               passive_order.user_id, passive_order.user_order_id,
               order.price, trade_qty)
    ELSE trade(symbol, passive_order.user_id, passive_order.user_order_id,
               order.user_id, order.user_order_id,
               order.price, trade_qty)

\* Mutant of make_trade: the incoming order is always named as the buyer
make_trade_incoming_buys(symbol, order, passive_order, level_price, trade_qty) ==
    trade(symbol, order.user_id, order.user_order_id,
          passive_order.user_id, passive_order.user_order_id,
          level_price, trade_qty)

\* match_order, lines 282-290 and 340-348: the Trade of one fill; the price
\* is the key of the passive level
make_trade(symbol, order, passive_order, level_price, trade_qty) ==
    IF order.side = "Buy"
    THEN trade(symbol, order.user_id, order.user_order_id,
               passive_order.user_id, passive_order.user_order_id,
               level_price, trade_qty)
    ELSE trade(symbol, passive_order.user_id, passive_order.user_order_id,
               order.user_id, order.user_order_id,
               level_price, trade_qty)

\* Mutant of match_level: the trade takes all that is left of the incoming
\* order
RECURSIVE match_level_all_left(_, _, _, _, _)
match_level_all_left(symbol, order, levels, price, acc) ==
    LET orders == levels[price] IN
    IF ~(order.remaining_qty > 0 /\ orders # <<>>)
    THEN [order |-> order, levels |-> levels, outs |-> acc.outs,
          fills |-> acc.fills]
    ELSE
      LET passive_order == Head(orders)
          trade_qty == order.remaining_qty
          t == make_trade(symbol, order, passive_order, price, trade_qty)
          order2 == fill(order, trade_qty)
          passive2 == fill(passive_order, trade_qty)
          orders2 == IF is_filled(passive2) THEN Tail(orders)
                     ELSE <<passive2>> \o Tail(orders)
          f == [incoming |-> order, passive |-> passive_order,
                level_price |-> price, quantity |-> trade_qty,
                opposing |-> levels]
      IN  match_level_all_left(symbol, order2,
                               [levels EXCEPT ![price] = orders2], price,
                               [outs |-> Append(acc.outs, t),
                                fills |-> Append(acc.fills, f)])

\* match_order, lines 276-301 and 335-359: the inner while loop over the FIFO
\* of one price level.  acc carries the outputs and the fill history.
RECURSIVE match_level(_, _, _, _, _)
match_level(symbol, order, levels, price, acc) ==
    LET orders == levels[price] IN
    IF ~(order.remaining_qty > 0 /\ orders # <<>>)
    THEN [order |-> order, levels |-> levels, outs |-> acc.outs,
          fills |-> acc.fills]
    ELSE
      LET passive_order == Head(orders)
          trade_qty == IF order.remaining_qty < passive_order.remaining_qty
                       THEN order.remaining_qty
                       ELSE passive_order.remaining_qty
          t == make_trade(symbol, order, passive_order, price, trade_qty)
          order2 == fill(order, trade_qty)
          passive2 == fill(passive_order, trade_qty)
          orders2 == IF is_filled(passive2) THEN Tail(orders)
                     ELSE <<passive2>> \o Tail(orders)
          f == [incoming |-> order, passive |-> passive_order,
                level_price |-> price, quantity |-> trade_qty,
                opposing |-> levels]
      IN  match_level(symbol, order2, [levels EXCEPT ![price] = orders2],
                      price,
                      [outs |-> Append(acc.outs, t),
                       fills |-> Append(acc.fills, f)])

\* match_order, lines 253-310 and 314-367: the outer loop over price levels
RECURSIVE match_loop(_, _, _, _)
match_loop(symbol, order, levels, acc) ==
    IF order.remaining_qty = 0 \/ DOMAIN levels = {}
    THEN [order |-> order, levels |-> levels, outs |-> acc.outs,
          fills |-> acc.fills]
    ELSE
      LET best_price == best_opposing_price(order.side, levels)
          \* after the level was matched (r): remove the level if it is
          \* empty, and loop
          next_level(r) ==
              match_loop(symbol, r.order,
                         IF r.levels[best_price] = <<>>
                         THEN MapRemove(r.levels, best_price)
                         ELSE r.levels,
                         [outs |-> r.outs, fills |-> r.fills])
      IN  IF ~can_match(order, best_price)
          THEN [order |-> order, levels |-> levels, outs |-> acc.outs,
                fills |-> acc.fills]
          ELSE next_level(match_level(symbol, order, levels, best_price,
                                      acc))

\* OrderBook::match_order
match_order(book, order) ==
    LET opp == IF order.side = "Buy" THEN book.asks ELSE book.bids
        result(r) ==
            [order |-> r.order,
             book |-> IF order.side = "Buy"
                      THEN [book EXCEPT !.asks = r.levels]
                      ELSE [book EXCEPT !.bids = r.levels],
             outs |-> r.outs, fills |-> r.fills]
    IN  result(match_loop(book.symbol, order, opp,
                          [outs |-> <<>>, fills |-> <<>>]))

\* Mutant of push_order: the order is pushed at the front of the FIFO
push_order_front(levels, order) ==
    IF order.price \in DOMAIN levels
    THEN [levels EXCEPT ![order.price] = <<order>> \o levels[order.price]]
    ELSE MapPut(levels, order.price, <<order>>)

\* Mutant of push_order: the level is kept in timestamp order, the order
\* goes in front of the orders stamped later
push_order_by_timestamp(levels, order) ==
    IF order.price \in DOMAIN levels
    THEN LET level == levels[order.price]
             earlier == SelectSeq(level,
                            LAMBDA o : o.timestamp_ns <= order.timestamp_ns)
             later == SelectSeq(level,
                            LAMBDA o : o.timestamp_ns > order.timestamp_ns)
         IN  [levels EXCEPT ![order.price] = earlier \o <<order>> \o later]
    ELSE MapPut(levels, order.price, <<order>>)

\* add_to_book, lines 378-379 and 382-383: entry(price).or_insert_with(new)
\* then push_back
push_order(levels, order) ==
    IF order.price \in DOMAIN levels
    THEN [levels EXCEPT ![order.price] = Append(levels[order.price], order)]
    ELSE MapPut(levels, order.price, <<order>>)

\* Mutant of add_to_book: the order rests on the opposite side
add_to_book_other_side(book, order) ==
    IF order.side = "Buy"
    THEN [book EXCEPT !.asks = push_order(book.asks, order)]
    ELSE [book EXCEPT !.bids = push_order(book.bids, order)]

\* OrderBook::add_to_book
add_to_book(book, order) ==
    IF order.side = "Buy"
    THEN [book EXCEPT !.bids = push_order(book.bids, order)]
    ELSE [book EXCEPT !.asks = push_order(book.asks, order)]

\* check_top_of_book_changes, lines 401-413 and 423-435: event of one side
tob_event(symbol, side, current_price, current_qty) ==
    IF current_price = 0 THEN top_of_book_eliminated(symbol, side)
    ELSE top_of_book(symbol, side, current_price, current_qty)

\* Mutant of check_top_of_book_changes: the cached bid quantity is not
\* updated
check_top_of_book_changes_stale_qty(book) ==
    LET changes(current_best_bid_price, current_best_bid_qty,
                current_best_ask_price, current_best_ask_qty) ==
          LET bid_changed ==
                  current_best_bid_price # book.prev_best_bid_price
                  \/ current_best_bid_qty # book.prev_best_bid_qty
              ask_changed ==
                  current_best_ask_price # book.prev_best_ask_price
                  \/ current_best_ask_qty # book.prev_best_ask_qty
              bid_outs == IF bid_changed
                          THEN <<tob_event(book.symbol, "Buy",
                                           current_best_bid_price,
                                           current_best_bid_qty)>>
                          ELSE <<>>
              ask_outs == IF ask_changed
                          THEN <<tob_event(book.symbol, "Sell",
                                           current_best_ask_price,
                                           current_best_ask_qty)>>
                          ELSE <<>>
              book1 == IF bid_changed
                       THEN [book EXCEPT
                               !.prev_best_bid_price = current_best_bid_price]
                       ELSE book
              book2 == IF ask_changed
                       THEN [book1 EXCEPT
                               !.prev_best_ask_price = current_best_ask_price,
                               !.prev_best_ask_qty = current_best_ask_qty]
                       ELSE book1
          IN  [book |-> book2, outs |-> bid_outs \o ask_outs]
    IN  changes(best_bid_price(book), best_bid_quantity(book),
                best_ask_price(book), best_ask_quantity(book))

\* OrderBook::check_top_of_book_changes
check_top_of_book_changes(book) ==
    LET changes(current_best_bid_price, current_best_bid_qty,
                current_best_ask_price, current_best_ask_qty) ==
          LET bid_changed ==
                  current_best_bid_price # book.prev_best_bid_price
                  \/ current_best_bid_qty # book.prev_best_bid_qty
              ask_changed ==
                  current_best_ask_price # book.prev_best_ask_price
                  \/ current_best_ask_qty # book.prev_best_ask_qty
              bid_outs == IF bid_changed
                          THEN <<tob_event(book.symbol, "Buy",
                                           current_best_bid_price,
                                           current_best_bid_qty)>>
                          ELSE <<>>
              ask_outs == IF ask_changed
                          THEN <<tob_event(book.symbol, "Sell",
                                           current_best_ask_price,
                                           current_best_ask_qty)>>
                          ELSE <<>>
              book1 == IF bid_changed
                       THEN [book EXCEPT
                               !.prev_best_bid_price = current_best_bid_price,
                               !.prev_best_bid_qty = current_best_bid_qty]
                       ELSE book
              book2 == IF ask_changed
                       THEN [book1 EXCEPT
                               !.prev_best_ask_price = current_best_ask_price,
                               !.prev_best_ask_qty = current_best_ask_qty]
                       ELSE book1
          IN  [book |-> book2, outs |-> bid_outs \o ask_outs]
    IN  changes(best_bid_price(book), best_bid_quantity(book),
                best_ask_price(book), best_ask_quantity(book))

\* Mutant of add_order: the Ack is pushed after the Trades
add_order_ack_late(book, msg, timestamp_ns) ==
    LET order == from_new_order(msg, timestamp_ns)
        ack_outs == <<ack(order.user_id, order.user_order_id, book.symbol)>>
        \* m: result of match_order, t: of check_top_of_book_changes
        emit(m, t) ==
            [book |-> t.book, outs |-> m.outs \o ack_outs \o t.outs,
             fills |-> m.fills]
        rest(m) ==
            emit(m, check_top_of_book_changes(
                        IF m.order.remaining_qty > 0
                           /\ m.order.order_type = "Limit"
                        THEN add_to_book(m.book, m.order)
                        ELSE m.book))
    IN  rest(match_order(book, order))

\* OrderBook::add_order
add_order(book, msg, timestamp_ns) ==
    LET order == from_new_order(msg, timestamp_ns)
        ack_outs == <<ack(order.user_id, order.user_order_id, book.symbol)>>
        \* m: result of match_order, t: of check_top_of_book_changes
        emit(m, t) ==
            [book |-> t.book, outs |-> ack_outs \o m.outs \o t.outs,
             fills |-> m.fills]
        rest(m) ==
            emit(m, check_top_of_book_changes(
                        IF m.order.remaining_qty > 0
                           /\ m.order.order_type = "Limit"
                        THEN add_to_book(m.book, m.order)
                        ELSE m.book))
    IN  rest(match_order(book, order))

\* Mutant of remove_from_side: the front order of the level is removed
\* instead of the order that bears the key
remove_from_side_front(levels, user_id, user_order_id) ==
    LET hit(p) == {i \in 1..Len(levels[p]) :
                      /\ levels[p][i].user_id = user_id
                      /\ levels[p][i].user_order_id = user_order_id}
        hit_prices == {p \in DOMAIN levels : hit(p) # {}}
    IN  IF hit_prices = {}
        THEN [found |-> FALSE, levels |-> levels]
        ELSE LET price == Min(hit_prices)
             IN  [found |-> TRUE,
                  levels |-> [levels EXCEPT
                                ![price] = Tail(levels[price])]]

\* cancel_order::remove_from_side.  Levels are scanned by ascending price and
\* each FIFO from the front; the first order with the key is removed.  The
\* function returns at line 136 right after the removal, so the clean-up loop
\* of lines 144-146 only runs when nothing was found, with empty_prices empty.
remove_from_side(levels, user_id, user_order_id) ==
    LET hit(p) == {i \in 1..Len(levels[p]) :
                      /\ levels[p][i].user_id = user_id
                      /\ levels[p][i].user_order_id = user_order_id}
        hit_prices == {p \in DOMAIN levels : hit(p) # {}}
    IN  IF hit_prices = {}
        THEN [found |-> FALSE, levels |-> levels]
        ELSE LET price == Min(hit_prices)
                 idx == Min(hit(price))
             IN  [found |-> TRUE,
                  levels |-> [levels EXCEPT
                                ![price] = RemoveAt(levels[price], idx)]]

\* Mutant of cancel_order: the CancelAck is only emitted for an order that
\* was found
cancel_order_ack_if_found(book, user_id, user_order_id) ==
    LET ack_outs == <<cancel_ack(user_id, user_order_id, book.symbol)>>
        finish(rb, ra) ==
            LET found == rb.found \/ ra.found
                book1 == IF rb.found THEN [book EXCEPT !.bids = rb.levels]
                         ELSE IF ra.found
                              THEN [book EXCEPT !.asks = ra.levels]
                              ELSE book
                emit(t) == [book |-> t.book, outs |-> ack_outs \o t.outs]
            IN  IF found
                THEN emit(check_top_of_book_changes(book1))
                ELSE [book |-> book1, outs |-> <<>>]
    IN  finish(remove_from_side(book.bids, user_id, user_order_id),
               remove_from_side(book.asks, user_id, user_order_id))

\* OrderBook::cancel_order
cancel_order(book, user_id, user_order_id) ==
    LET ack_outs == <<cancel_ack(user_id, user_order_id, book.symbol)>>
        \* rb, ra: results of remove_from_side on bids and on asks; asks
        \* are only tried when bids did not hold the order
        finish(rb, ra) ==
            LET found == rb.found \/ ra.found
                book1 == IF rb.found THEN [book EXCEPT !.bids = rb.levels]
                         ELSE IF ra.found
                              THEN [book EXCEPT !.asks = ra.levels]
                              ELSE book
                emit(t) == [book |-> t.book, outs |-> ack_outs \o t.outs]
            IN  IF found
                THEN emit(check_top_of_book_changes(book1))
                ELSE [book |-> book1, outs |-> ack_outs]
    IN  finish(remove_from_side(book.bids, user_id, user_order_id),
               remove_from_side(book.asks, user_id, user_order_id))

\* ------------------------------------------------------------------------
\* matching_engine.rs
\* ------------------------------------------------------------------------
\* MatchingEngine::get_or_create_order_book
get_or_create_order_book(books, symbol) ==
    IF symbol \in DOMAIN books THEN books
    ELSE MapPut(books, symbol, new_book(symbol))

\* Mutant of process_new_order: the order goes to a book that exists,
\* whatever its symbol
process_new_order_any_book(books, index, msg, timestamp_ns) ==
    LET books1 == get_or_create_order_book(books, msg.symbol)
        target == CHOOSE s \in DOMAIN books1 :
                      DOMAIN books # {} => s \in DOMAIN books
        key == <<msg.user_id, msg.user_order_id>>
        index1 == MapPut(index, key, msg.symbol)
        result(r) ==
            [books |-> [books1 EXCEPT ![target] = r.book],
             index |-> index1, outs |-> r.outs, fills |-> r.fills]
    IN  result(add_order(books1[target], msg, timestamp_ns))

\* MatchingEngine::process_new_order
process_new_order(books, index, msg, timestamp_ns) ==
    LET books1 == get_or_create_order_book(books, msg.symbol)
        key == <<msg.user_id, msg.user_order_id>>
        index1 == MapPut(index, key, msg.symbol)
        result(r) ==
            [books |-> [books1 EXCEPT ![msg.symbol] = r.book],
             index |-> index1, outs |-> r.outs, fills |-> r.fills]
    IN  result(add_order(books1[msg.symbol], msg, timestamp_ns))

\* Mutant of process_cancel: a key the index does not hold gets no answer
process_cancel_silent(books, index, msg) ==
    LET key == <<msg.user_id, msg.user_order_id>> IN
    IF key \notin DOMAIN index
    THEN [books |-> books, index |-> index, outs |-> <<>>]
    ELSE
      LET symbol == index[key]
          result(r) ==
              [books |-> [books EXCEPT ![symbol] = r.book],
               index |-> MapRemove(index, key), outs |-> r.outs]
      IN
      IF symbol \in DOMAIN books
      THEN result(cancel_order(books[symbol], msg.user_id,
                               msg.user_order_id))
      ELSE [books |-> books, index |-> MapRemove(index, key),
            outs |-> <<cancel_ack(msg.user_id, msg.user_order_id, symbol)>>]

\* Mutant of process_cancel: the index entry is kept
process_cancel_keep_entry(books, index, msg) ==
    LET key == <<msg.user_id, msg.user_order_id>> IN
    IF key \notin DOMAIN index
    THEN [books |-> books, index |-> index,
          outs |-> <<cancel_ack(msg.user_id, msg.user_order_id, "<unknown>")>>]
    ELSE
      LET symbol == index[key]
          result(r) ==
              [books |-> [books EXCEPT ![symbol] = r.book],
               index |-> index, outs |-> r.outs]
      IN
      IF symbol \in DOMAIN books
      THEN result(cancel_order(books[symbol], msg.user_id,
                               msg.user_order_id))
      ELSE [books |-> books, index |-> index,
            outs |-> <<cancel_ack(msg.user_id, msg.user_order_id, symbol)>>]

\* Mutant of process_cancel: a book that the Cancel left with no order is
\* removed from order_books
process_cancel_drop_empty_book(books, index, msg) ==
    LET key == <<msg.user_id, msg.user_order_id>> IN
    IF key \notin DOMAIN index
    THEN [books |-> books, index |-> index,
          outs |-> <<cancel_ack(msg.user_id, msg.user_order_id, "<unknown>")>>]
    ELSE
      LET symbol == index[key]
          no_order(levels) == \A p \in DOMAIN levels : levels[p] = <<>>
          result(r) ==
              [books |-> IF no_order(r.book.bids) /\ no_order(r.book.asks)
                         THEN MapRemove(books, symbol)
                         ELSE [books EXCEPT ![symbol] = r.book],
               index |-> MapRemove(index, key), outs |-> r.outs]
      IN
      IF symbol \in DOMAIN books
      THEN result(cancel_order(books[symbol], msg.user_id,
                               msg.user_order_id))
      ELSE [books |-> books, index |-> MapRemove(index, key),
            outs |-> <<cancel_ack(msg.user_id, msg.user_order_id, symbol)>>]

\* MatchingEngine::process_cancel
process_cancel(books, index, msg) ==
    LET key == <<msg.user_id, msg.user_order_id>> IN
    IF key \notin DOMAIN index
    THEN [books |-> books, index |-> index,
          outs |-> <<cancel_ack(msg.user_id, msg.user_order_id, "<unknown>")>>]
    ELSE
      LET symbol == index[key]
          result(r) ==
              [books |-> [books EXCEPT ![symbol] = r.book],
               index |-> MapRemove(index, key), outs |-> r.outs]
      IN
      IF symbol \in DOMAIN books
      THEN result(cancel_order(books[symbol], msg.user_id,
                               msg.user_order_id))
      ELSE [books |-> books, index |-> MapRemove(index, key),
            outs |-> <<cancel_ack(msg.user_id, msg.user_order_id, symbol)>>]

\* Mutant of process_flush: the index is not cleared
process_flush_keep_index(books, index) ==
    [books |-> EmptyMap, index |-> index, outs |-> <<>>]

\* MatchingEngine::process_flush
process_flush(books, index) ==
    [books |-> EmptyMap, index |-> EmptyMap, outs |-> <<>>]

\* MatchingEngine::process_query_top_of_book
process_query_top_of_book(books, symbol) ==
    LET has == symbol \in DOMAIN books
        bid_price == IF has THEN best_bid_price(books[symbol]) ELSE 0
        bid_qty == IF has THEN best_bid_quantity(books[symbol]) ELSE 0
        ask_price == IF has THEN best_ask_price(books[symbol]) ELSE 0
        ask_qty == IF has THEN best_ask_quantity(books[symbol]) ELSE 0
        bid_out == IF bid_price = 0
                   THEN top_of_book_eliminated(symbol, "Buy")
                   ELSE top_of_book(symbol, "Buy", bid_price, bid_qty)
        ask_out == IF ask_price = 0
                   THEN top_of_book_eliminated(symbol, "Sell")
                   ELSE top_of_book(symbol, "Sell", ask_price, ask_qty)
    IN  <<bid_out, ask_out>>

\* MatchingEngine::new
new_engine == [books |-> EmptyMap, index |-> EmptyMap]

\* MatchingEngine::process_message
process_message(books, index, msg, timestamp_ns) ==
    LET no_fill(r) == [books |-> r.books, index |-> r.index,
                       outs |-> r.outs, fills |-> <<>>]
    IN  CASE msg.type = "NewOrder" ->
                process_new_order(books, index, msg, timestamp_ns)
          [] msg.type = "Cancel" -> no_fill(process_cancel(books, index, msg))
          [] msg.type = "Flush" -> no_fill(process_flush(books, index))
          [] msg.type = "QueryTopOfBook" ->
                [books |-> books, index |-> index,
                 outs |-> process_query_top_of_book(books, msg.symbol),
                 fills |-> <<>>]

\* ------------------------------------------------------------------------
\* engine-protocol: wire_types.rs
\* ------------------------------------------------------------------------
PROTOCOL_VERSION == 1

MAX_SYMBOL_LEN == 32

\* WireInputType::from_u8 ; "None" is Option::None
WireInputType_from_u8(v) ==
    CASE v = 0 -> "NewOrder"
      [] v = 1 -> "Cancel"
      [] v = 2 -> "Flush"
      [] v = 3 -> "QueryTopOfBook"
      [] OTHER -> "None"

\* WireOutputType::from_u8
WireOutputType_from_u8(v) ==
    CASE v = 10 -> "Ack"
      [] v = 11 -> "CancelAck"
      [] v = 12 -> "Trade"
      [] v = 13 -> "TopOfBook"
      [] OTHER -> "None"

validate_symbol_len(len) == len > 0 /\ len <= MAX_SYMBOL_LEN

\* ------------------------------------------------------------------------
\* Symbol texts of the model and their UTF-8 bytes (str::as_bytes,
\* std::str::from_utf8).  Sym32 has MAX_SYMBOL_LEN bytes, Sym33 one more.
\* ------------------------------------------------------------------------
Sym32 == "XXXXXXXXXXXXXXXXXXXXXXXXXXXXXXXX"

Sym33 == "XXXXXXXXXXXXXXXXXXXXXXXXXXXXXXXXX"

SymbolTexts == {"", "IBM", "AAPL", "<unknown>", Sym32, Sym33}

as_bytes(s) ==
    CASE s = "" -> <<>>
      [] s = "IBM" -> <<73, 66, 77>>
      [] s = "AAPL" -> <<65, 65, 80, 76>>
      [] s = "<unknown>" -> <<60, 117, 110, 107, 110, 111, 119, 110, 62>>
      [] s = Sym32 -> [i \in 1..32 |-> 88]
      [] s = Sym33 -> [i \in 1..33 |-> 88]

\* A byte of 0x80 and more never stands alone in UTF-8; the ASCII texts the
\* model sends are the symbol texts
from_utf8(bytes) ==
    IF \E i \in 1..Len(bytes) : bytes[i] >= 128
    THEN [ok |-> FALSE, text |-> ""]
    ELSE [ok |-> TRUE,
          text |-> CHOOSE s \in SymbolTexts : as_bytes(s) = bytes]

\* ------------------------------------------------------------------------
\* engine-protocol: binary_codec.rs
\* ------------------------------------------------------------------------
\* u32::to_be_bytes
to_be_bytes(n) ==
    <<(n \div 16777216) % 256, (n \div 65536) % 256, (n \div 256) % 256,
      n % 256>>

\* Mutant of read_u32_be: the bytes are read in little-endian order
read_u32_le(bytes) ==
    bytes[4] * 16777216 + bytes[3] * 65536 + bytes[2] * 256 + bytes[1]

\* read_u32_be
read_u32_be(bytes) ==
    bytes[1] * 16777216 + bytes[2] * 65536 + bytes[3] * 256 + bytes[4]

\* &buf[a..b] and buf[i], with the 0-based offsets of the code
slice(buf, a, b) == SubSeq(buf, a + 1, b)

at(buf, i) == buf[i + 1]

\* Result::Ok / Result::Err(ProtocolError)
Ok(m) == [ok |-> TRUE, msg |-> m]

Err(kind, value, field) ==
    [ok |-> FALSE, err |-> [kind |-> kind, value |-> value, field |-> field]]

Truncated == Err("Truncated", 0, "")

UnknownMessageType(t) == Err("UnknownMessageType", t, "")

VersionMismatch(v) == Err("VersionMismatch", v, "")

InvalidSymbol == Err("InvalidSymbol", 0, "")

InvalidField(f) == Err("InvalidField", 0, f)

\* InputMessage variants
NewOrderMsg(user_id, symbol, price, quantity, side, user_order_id) ==
    [type |-> "NewOrder", user_id |-> user_id, symbol |-> symbol,
     price |-> price, quantity |-> quantity, side |-> side,
     user_order_id |-> user_order_id]

CancelMsg(user_id, user_order_id) ==
    [type |-> "Cancel", user_id |-> user_id, user_order_id |-> user_order_id]

FlushMsg == [type |-> "Flush"]

QueryMsg(symbol) == [type |-> "QueryTopOfBook", symbol |-> symbol]

\* decode_new_order
decode_new_order(buf) ==
    IF Len(buf) < 22 THEN Truncated
    ELSE
      LET user_id == read_u32_be(slice(buf, 4, 8))
          user_order_id == read_u32_be(slice(buf, 8, 12))
          price == read_u32_be(slice(buf, 12, 16))
          quantity == read_u32_be(slice(buf, 16, 20))
          side_raw == at(buf, 20)
          symbol_len == at(buf, 21)
          symbol == from_utf8(slice(buf, 22, 22 + symbol_len))
      IN  IF side_raw \notin {0, 1} THEN InvalidField("side")
          ELSE IF ~validate_symbol_len(symbol_len) THEN InvalidSymbol
          ELSE IF Len(buf) < 22 + symbol_len THEN Truncated
          ELSE IF ~symbol.ok THEN InvalidSymbol
          ELSE IF quantity = 0 THEN InvalidField("quantity")
          ELSE Ok(NewOrderMsg(user_id, symbol.text, price, quantity,
                              IF side_raw = 0 THEN "Buy" ELSE "Sell",
                              user_order_id))

\* decode_cancel
decode_cancel(buf) ==
    IF Len(buf) < 12 THEN Truncated
    ELSE Ok(CancelMsg(read_u32_be(slice(buf, 4, 8)),
                      read_u32_be(slice(buf, 8, 12))))

\* decode_query_tob
decode_query_tob(buf) ==
    IF Len(buf) < 5 THEN Truncated
    ELSE
      LET symbol_len == at(buf, 4)
          symbol == from_utf8(slice(buf, 5, 5 + symbol_len))
      IN  IF ~validate_symbol_len(symbol_len) THEN InvalidSymbol
          ELSE IF Len(buf) < 5 + symbol_len THEN Truncated
          ELSE IF ~symbol.ok THEN InvalidSymbol
          ELSE Ok(QueryMsg(symbol.text))

\* Mutant of decode_input: the type byte is looked up before the version is
\* compared
decode_input_type_first(buf) ==
    IF Len(buf) < 4 THEN Truncated
    ELSE
      LET msg_type == at(buf, 0)
          version == at(buf, 1)
          wire_type == WireInputType_from_u8(msg_type)
      IN  IF wire_type = "None" THEN UnknownMessageType(msg_type)
          ELSE IF version # PROTOCOL_VERSION THEN VersionMismatch(version)
          ELSE CASE wire_type = "NewOrder" -> decode_new_order(buf)
                 [] wire_type = "Cancel" -> decode_cancel(buf)
                 [] wire_type = "Flush" -> Ok(FlushMsg)
                 [] wire_type = "QueryTopOfBook" -> decode_query_tob(buf)

\* decode_input
decode_input(buf) ==
    IF Len(buf) < 4 THEN Truncated
    ELSE
      LET msg_type == at(buf, 0)
          version == at(buf, 1)
          wire_type == WireInputType_from_u8(msg_type)
      IN  IF version # PROTOCOL_VERSION THEN VersionMismatch(version)
          ELSE CASE wire_type = "None" -> UnknownMessageType(msg_type)
                 [] wire_type = "NewOrder" -> decode_new_order(buf)
                 [] wire_type = "Cancel" -> decode_cancel(buf)
                 [] wire_type = "Flush" -> Ok(FlushMsg)
                 [] wire_type = "QueryTopOfBook" -> decode_query_tob(buf)

\* The header every encoder pushes: type, version, two reserved bytes
header(type_byte) == <<type_byte, PROTOCOL_VERSION, 0, 0>>

\* Result of an encoder: Ok(()) with the bytes appended to out, or the
\* error with out as the encoder left it
Encoded(out) == [ok |-> TRUE, out |-> out]

EncodeErr(e, out) == [ok |-> FALSE, err |-> e.err, out |-> out]

side_byte(side) == IF side = "Buy" THEN 0 ELSE 1

\* symbol_bytes.is_empty() || symbol_bytes.len() > MAX_SYMBOL_LEN
bad_symbol(symbol_bytes) ==
    Len(symbol_bytes) = 0 \/ Len(symbol_bytes) > MAX_SYMBOL_LEN

\* Mutant of encode_input_new_order: the header is pushed before the symbol
\* is looked at
encode_input_new_order_header_first(n, out) ==
    LET symbol_bytes == as_bytes(n.symbol) IN
    IF bad_symbol(symbol_bytes)
    THEN EncodeErr(InvalidSymbol, out \o header(0))
    ELSE Encoded(out \o header(0) \o to_be_bytes(n.user_id)
                 \o to_be_bytes(n.user_order_id) \o to_be_bytes(n.price)
                 \o to_be_bytes(n.quantity) \o <<side_byte(n.side)>>
                 \o <<Len(symbol_bytes)>> \o symbol_bytes)

\* encode_input_new_order
encode_input_new_order(n, out) ==
    LET symbol_bytes == as_bytes(n.symbol) IN
    IF bad_symbol(symbol_bytes) THEN EncodeErr(InvalidSymbol, out)
    ELSE Encoded(out \o header(0) \o to_be_bytes(n.user_id)
                 \o to_be_bytes(n.user_order_id) \o to_be_bytes(n.price)
                 \o to_be_bytes(n.quantity) \o <<side_byte(n.side)>>
                 \o <<Len(symbol_bytes)>> \o symbol_bytes)

\* encode_input_cancel
encode_input_cancel(c, out) ==
    Encoded(out \o header(1) \o to_be_bytes(c.user_id)
            \o to_be_bytes(c.user_order_id))

\* encode_input_flush
encode_input_flush(out) == Encoded(out \o header(2))

\* encode_input_query_tob
encode_input_query_tob(q, out) ==
    LET symbol_bytes == as_bytes(q.symbol) IN
    IF bad_symbol(symbol_bytes) THEN EncodeErr(InvalidSymbol, out)
    ELSE Encoded(out \o header(3) \o <<Len(symbol_bytes)>> \o symbol_bytes)

\* encode_input
encode_input(msg, out) ==
    CASE msg.type = "NewOrder" -> encode_input_new_order(msg, out)
      [] msg.type = "Cancel" -> encode_input_cancel(msg, out)
      [] msg.type = "Flush" -> encode_input_flush(out)
      [] msg.type = "QueryTopOfBook" -> encode_input_query_tob(msg, out)

\* encode_ack
encode_ack(a, out) ==
    LET symbol_bytes == as_bytes(a.symbol) IN
    IF bad_symbol(symbol_bytes) THEN EncodeErr(InvalidSymbol, out)
    ELSE Encoded(out \o header(10) \o to_be_bytes(a.user_id)
                 \o to_be_bytes(a.user_order_id)
                 \o <<Len(symbol_bytes)>> \o symbol_bytes)

\* encode_cancel_ack
encode_cancel_ack(c, out) ==
    LET symbol_bytes == as_bytes(c.symbol) IN
    IF bad_symbol(symbol_bytes) THEN EncodeErr(InvalidSymbol, out)
    ELSE Encoded(out \o header(11) \o to_be_bytes(c.user_id)
                 \o to_be_bytes(c.user_order_id)
                 \o <<Len(symbol_bytes)>> \o symbol_bytes)

\* encode_trade
encode_trade(t, out) ==
    LET symbol_bytes == as_bytes(t.symbol) IN
    IF bad_symbol(symbol_bytes) THEN EncodeErr(InvalidSymbol, out)
    ELSE Encoded(out \o header(12) \o <<Len(symbol_bytes)>> \o symbol_bytes
                 \o to_be_bytes(t.user_id_buy)
                 \o to_be_bytes(t.user_order_id_buy)
                 \o to_be_bytes(t.user_id_sell)
                 \o to_be_bytes(t.user_order_id_sell)
                 \o to_be_bytes(t.price) \o to_be_bytes(t.quantity))

\* encode_top_of_book
encode_top_of_book(t, out) ==
    LET symbol_bytes == as_bytes(t.symbol) IN
    IF bad_symbol(symbol_bytes) THEN EncodeErr(InvalidSymbol, out)
    ELSE Encoded(out \o header(13) \o <<Len(symbol_bytes)>> \o symbol_bytes
                 \o <<side_byte(t.side)>>
                 \o <<IF t.eliminated THEN 1 ELSE 0>>
                 \o to_be_bytes(t.price) \o to_be_bytes(t.total_quantity))

\* encode_output
encode_output(msg, out) ==
    CASE msg.type = "Ack" -> encode_ack(msg, out)
      [] msg.type = "CancelAck" -> encode_cancel_ack(msg, out)
      [] msg.type = "Trade" -> encode_trade(msg, out)
      [] msg.type = "TopOfBook" -> encode_top_of_book(msg, out)

\* decode_ack
decode_ack(buf) ==
    IF Len(buf) < 13 THEN Truncated
    ELSE
      LET user_id == read_u32_be(slice(buf, 4, 8))
          user_order_id == read_u32_be(slice(buf, 8, 12))
          symbol_len == at(buf, 12)
          symbol == from_utf8(slice(buf, 13, 13 + symbol_len))
      IN  IF ~validate_symbol_len(symbol_len)
             \/ Len(buf) < 13 + symbol_len
          THEN InvalidSymbol
          ELSE IF ~symbol.ok THEN InvalidSymbol
          ELSE Ok(ack(user_id, user_order_id, symbol.text))

\* decode_cancel_ack
decode_cancel_ack(buf) ==
    IF Len(buf) < 13 THEN Truncated
    ELSE
      LET user_id == read_u32_be(slice(buf, 4, 8))
          user_order_id == read_u32_be(slice(buf, 8, 12))
          symbol_len == at(buf, 12)
          symbol == from_utf8(slice(buf, 13, 13 + symbol_len))
      IN  IF ~validate_symbol_len(symbol_len)
             \/ Len(buf) < 13 + symbol_len
          THEN InvalidSymbol
          ELSE IF ~symbol.ok THEN InvalidSymbol
          ELSE Ok(cancel_ack(user_id, user_order_id, symbol.text))

\* decode_trade
decode_trade(buf) ==
    IF Len(buf) < 5 THEN Truncated
    ELSE
      LET symbol_len == at(buf, 4)
          symbol == from_utf8(slice(buf, 5, 5 + symbol_len))
          offset == 5 + symbol_len
          field(k) == read_u32_be(slice(buf, offset + 4 * k,
                                        offset + 4 * k + 4))
      IN  IF ~validate_symbol_len(symbol_len) THEN InvalidSymbol
          ELSE IF Len(buf) < 5 + symbol_len + 4 * 6 THEN Truncated
          ELSE IF ~symbol.ok THEN InvalidSymbol
          ELSE Ok(trade(symbol.text, field(0), field(1), field(2),
                        field(3), field(4), field(5)))

\* decode_top_of_book
decode_top_of_book(buf) ==
    IF Len(buf) < 5 THEN Truncated
    ELSE
      LET symbol_len == at(buf, 4)
          symbol == from_utf8(slice(buf, 5, 5 + symbol_len))
          offset == 5 + symbol_len
          side_raw == at(buf, offset)
          eliminated == at(buf, offset + 1) # 0
          price == read_u32_be(slice(buf, offset + 2, offset + 6))
          total_quantity == read_u32_be(slice(buf, offset + 6, offset + 10))
      IN  IF ~validate_symbol_len(symbol_len) THEN InvalidSymbol
          ELSE IF Len(buf) < 5 + symbol_len + 1 + 1 + 4 + 4 THEN Truncated
          ELSE IF ~symbol.ok THEN InvalidSymbol
          ELSE IF side_raw \notin {0, 1} THEN InvalidField("side")
          ELSE Ok([type |-> "TopOfBook", symbol |-> symbol.text,
                   side |-> IF side_raw = 0 THEN "Buy" ELSE "Sell",
                   price |-> price, total_quantity |-> total_quantity,
                   eliminated |-> eliminated])

\* decode_output
decode_output(buf) ==
    IF Len(buf) < 4 THEN Truncated
    ELSE
      LET msg_type == at(buf, 0)
          version == at(buf, 1)
          wire_type == WireOutputType_from_u8(msg_type)
      IN  IF version # PROTOCOL_VERSION THEN VersionMismatch(version)
          ELSE CASE wire_type = "None" -> UnknownMessageType(msg_type)
                 [] wire_type = "Ack" -> decode_ack(buf)
                 [] wire_type = "CancelAck" -> decode_cancel_ack(buf)
                 [] wire_type = "Trade" -> decode_trade(buf)
                 [] wire_type = "TopOfBook" -> decode_top_of_book(buf)

\* ------------------------------------------------------------------------
\* engine-protocol: csv_codec.rs.  A line is a sequence of characters.
\* ------------------------------------------------------------------------
\* The characters of the symbol texts (String::chars)
as_chars(s) ==
    CASE s = "" -> <<>>
      [] s = "IBM" -> <<"I", "B", "M">>
      [] s = "AAPL" -> <<"A", "A", "P", "L">>
      [] s = "<unknown>" -> <<"<", "u", "n", "k", "n", "o", "w", "n", ">">>
      [] s = Sym32 -> [i \in 1..32 |-> "X"]
      [] s = Sym33 -> [i \in 1..33 |-> "X"]

\* The String a token is: tokens[i].clone()
string_of(chars) == CHOOSE s \in SymbolTexts : as_chars(s) = chars

\* Option::None of parse_input_line
None == Err("None", 0, "")

\* str::trim
RECURSIVE trim_start(_)
trim_start(s) ==
    IF s # <<>> /\ Head(s) = " " THEN trim_start(Tail(s)) ELSE s

RECURSIVE trim_end(_)
trim_end(s) ==
    IF s # <<>> /\ s[Len(s)] = " "
    THEN trim_end(SubSeq(s, 1, Len(s) - 1)) ELSE s

trim(s) == trim_end(trim_start(s))

\* str::split
RECURSIVE split(_, _)
split(s, delimiter) ==
    LET hits == {i \in 1..Len(s) : s[i] = delimiter} IN
    IF hits = {} THEN <<s>>
    ELSE <<SubSeq(s, 1, Min(hits) - 1)>>
         \o split(SubSeq(s, Min(hits) + 1, Len(s)), delimiter)

\* split_and_trim
split_and_trim(s, delimiter) ==
    LET parts == split(s, delimiter) IN
    [k \in 1..Len(parts) |-> trim(parts[k])]

Digits == {"0", "1", "2", "3", "4", "5", "6", "7", "8", "9"}

digit_value(c) ==
    CASE c = "0" -> 0 [] c = "1" -> 1 [] c = "2" -> 2 [] c = "3" -> 3
      [] c = "4" -> 4 [] c = "5" -> 5 [] c = "6" -> 6 [] c = "7" -> 7
      [] c = "8" -> 8 [] c = "9" -> 9

RECURSIVE digits_value(_, _)
digits_value(digits, acc) ==
    IF digits = <<>> THEN acc
    ELSE digits_value(Tail(digits), acc * 10 + digit_value(Head(digits)))

U32_MAX_DIGITS == <<"4", "2", "9", "4", "9", "6", "7", "2", "9", "5">>

RECURSIVE strip_zeros(_)
strip_zeros(digits) ==
    IF Len(digits) > 1 /\ Head(digits) = "0" THEN strip_zeros(Tail(digits))
    ELSE digits

\* a > b for two numerals of the same length
RECURSIVE digits_greater(_, _)
digits_greater(a, b) ==
    IF a = <<>> THEN FALSE
    ELSE IF Head(a) # Head(b)
    THEN digit_value(Head(a)) > digit_value(Head(b))
    ELSE digits_greater(Tail(a), Tail(b))

overflows_u32(digits) ==
    LET n == strip_zeros(digits) IN
    Len(n) > 10 \/ (Len(n) = 10 /\ digits_greater(n, U32_MAX_DIGITS))

\* parse_u32: str::parse::<u32>, which takes one leading '+', wants at
\* least one digit and nothing but digits, and fails above u32::MAX
parse_u32(s) ==
    LET digits == IF s # <<>> /\ Head(s) = "+" THEN Tail(s) ELSE s IN
    IF digits = <<>> \/ \E i \in 1..Len(digits) : digits[i] \notin Digits
    THEN [ok |-> FALSE, value |-> 0]
    ELSE IF overflows_u32(digits) THEN [ok |-> FALSE, value |-> 0]
    ELSE [ok |-> TRUE, value |-> digits_value(strip_zeros(digits), 0)]

\* Mutant of parse_new_order: quantity 0 is taken
parse_new_order_any_quantity(tokens) ==
    IF Len(tokens) # 7 THEN None
    ELSE
      LET user_id == parse_u32(tokens[2])
          symbol == string_of(tokens[3])
          price == parse_u32(tokens[4])
          quantity == parse_u32(tokens[5])
          user_order_id == parse_u32(tokens[7])
      IN  IF ~user_id.ok \/ ~price.ok \/ ~quantity.ok THEN None
          ELSE IF tokens[6] = <<>> THEN None
          ELSE IF Head(tokens[6]) \notin {"B", "S"} THEN None
          ELSE IF ~user_order_id.ok THEN None
          ELSE Ok(NewOrderMsg(user_id.value, symbol, price.value,
                              quantity.value,
                              IF Head(tokens[6]) = "B" THEN "Buy"
                              ELSE "Sell",
                              user_order_id.value))

\* parse_new_order ; tokens[k] of the code is tokens[k + 1] here
parse_new_order(tokens) ==
    IF Len(tokens) # 7 THEN None
    ELSE
      LET user_id == parse_u32(tokens[2])
          symbol == string_of(tokens[3])
          price == parse_u32(tokens[4])
          quantity == parse_u32(tokens[5])
          user_order_id == parse_u32(tokens[7])
      IN  IF ~user_id.ok \/ ~price.ok \/ ~quantity.ok THEN None
          ELSE IF quantity.value = 0 THEN None
          ELSE IF tokens[6] = <<>> THEN None
          ELSE IF Head(tokens[6]) \notin {"B", "S"} THEN None
          ELSE IF ~user_order_id.ok THEN None
          ELSE Ok(NewOrderMsg(user_id.value, symbol, price.value,
                              quantity.value,
                              IF Head(tokens[6]) = "B" THEN "Buy"
                              ELSE "Sell",
                              user_order_id.value))

\* parse_cancel
parse_cancel(tokens) ==
    IF Len(tokens) # 3 THEN None
    ELSE
      LET user_id == parse_u32(tokens[2])
          user_order_id == parse_u32(tokens[3])
      IN  IF ~user_id.ok \/ ~user_order_id.ok THEN None
          ELSE Ok(CancelMsg(user_id.value, user_order_id.value))

\* parse_query_tob
parse_query_tob(tokens) ==
    IF Len(tokens) # 2 THEN None
    ELSE Ok(QueryMsg(string_of(tokens[2])))

\* parse_input_line
parse_input_line(line) ==
    LET trimmed == trim(line)
        tokens == split_and_trim(trimmed, ",")
        \* chars().next().unwrap_or('\0'): "" stands for the NUL character
        msg_type == IF tokens[1] = <<>> THEN "" ELSE Head(tokens[1])
    IN  IF trimmed = <<>> \/ Head(trimmed) = "#" THEN None
        ELSE CASE msg_type = "N" -> parse_new_order(tokens)
               [] msg_type = "C" -> parse_cancel(tokens)
               [] msg_type = "F" ->
                     IF Len(tokens) = 1 THEN Ok(FlushMsg) ELSE None
               [] msg_type = "Q" -> parse_query_tob(tokens)
               [] OTHER -> None

\* ------------------------------------------------------------------------
\* What clients put on the wire
\* ------------------------------------------------------------------------
\* A value of the upper half of the bytes of a u32 field
BigU32 == 2147483647

WireIds == (1..MaxWireId) \cup {258, BigU32}

WireSymbols == {"", "IBM", Sym32, Sym33}

\* The messages handed to encode_input
InputMessages ==
    {NewOrderMsg(u, s, p, q, sd, i) :
        u \in {1, BigU32}, s \in WireSymbols, p \in {0, 1, 258},
        q \in {0, 1, BigU32}, sd \in Sides, i \in WireIds}
    \cup {CancelMsg(u, i) : u \in WireIds, i \in WireIds}
    \cup {FlushMsg}
    \cup {QueryMsg(s) : s \in WireSymbols}

\* The messages handed to encode_output
OutputMessages ==
    {ack(u, i, s) : u \in WireIds, i \in {1}, s \in WireSymbols}
    \cup {cancel_ack(u, i, s) :
            u \in {1}, i \in WireIds, s \in WireSymbols \cup {"<unknown>"}}
    \cup {trade(s, ub, 1, us, 258, p, q) :
            s \in WireSymbols, ub \in {1, BigU32}, us \in {1, 2},
            p \in {1, 258}, q \in {1, BigU32}}
    \cup {top_of_book(s, sd, p, q) :
            s \in WireSymbols, sd \in Sides, p \in {1, BigU32},
            q \in {0, 258}}
    \cup {top_of_book_eliminated(s, sd) : s \in WireSymbols, sd \in Sides}

\* Frames as a client may write them (layout of binary_codec.rs, lines
\* 10-35), with any side byte, quantity and symbol length
NewOrderFrame(user_id, user_order_id, price, quantity, side_raw, symbol) ==
    <<0, PROTOCOL_VERSION, 0, 0>> \o to_be_bytes(user_id)
    \o to_be_bytes(user_order_id) \o to_be_bytes(price)
    \o to_be_bytes(quantity) \o <<side_raw>>
    \o <<Len(as_bytes(symbol))>> \o as_bytes(symbol)

CancelFrame(user_id, user_order_id) ==
    <<1, PROTOCOL_VERSION, 0, 0>> \o to_be_bytes(user_id)
    \o to_be_bytes(user_order_id)

FlushFrame == <<2, PROTOCOL_VERSION, 0, 0>>

QueryFrame(symbol) ==
    <<3, PROTOCOL_VERSION, 0, 0>> \o <<Len(as_bytes(symbol))>>
    \o as_bytes(symbol)

FrontUserIds == 1..MaxWireId

FrontPrices == 0..MaxWirePrice

FrontQuantities == 0..MaxWireQty

BinaryFrames ==
    {NewOrderFrame(u, 1, p, q, sd, s) :
        u \in FrontUserIds, p \in FrontPrices, q \in FrontQuantities,
        sd \in {0, 1, 2}, s \in WireSymbols}
    \cup {CancelFrame(u, 1) : u \in FrontUserIds}
    \cup {FlushFrame}
    \cup {QueryFrame(s) : s \in WireSymbols}

\* u32 as Display writes it
DigitChars == <<"0", "1", "2", "3", "4", "5", "6", "7", "8", "9">>

RECURSIVE numeral(_)
numeral(n) ==
    IF n < 10 THEN <<DigitChars[n + 1]>>
    ELSE numeral(n \div 10) \o <<DigitChars[(n % 10) + 1]>>

\* Tokens joined as the clients write them: "N, 1, IBM, 10, 100, B, 1"
RECURSIVE join(_)
join(tokens) ==
    IF Len(tokens) = 1 THEN tokens[1]
    ELSE tokens[1] \o <<",", " ">> \o join(Tail(tokens))

CsvLines ==
    {join(<<<<"N">>, numeral(u), as_chars(s), numeral(p), numeral(q), sd,
            numeral(1)>>) :
        u \in FrontUserIds, s \in WireSymbols, p \in FrontPrices,
        q \in FrontQuantities, sd \in {<<"B">>, <<"S">>, <<"X">>}}
    \cup {join(<<<<"C">>, numeral(u), numeral(1)>>) : u \in FrontUserIds}
    \cup {<<"F">>}
    \cup {join(<<<<"Q">>, as_chars(s)>>) : s \in WireSymbols}
    \cup {<<"#", " ", "F">>, <<" ", " ">>,
          join(<<<<"N">>, <<"x">>, as_chars("IBM"), numeral(1),
                 numeral(1), <<"B">>, numeral(1)>>)}

\* Buffers as a peer may hand them to a decoder: the frames of the two
\* directions, with any version byte and type byte, cut at any length
FullFrames ==
    {NewOrderFrame(1, 1, 1, 1, 0, "IBM"), CancelFrame(1, 258), FlushFrame,
     QueryFrame("IBM"), QueryFrame(Sym32)}
    \cup {encode_output(o, <<>>).out :
            o \in {ack(1, 1, "IBM"), cancel_ack(1, 258, "<unknown>"),
                   trade("IBM", 1, 1, 2, 258, 1, 1),
                   top_of_book("IBM", "Buy", 1, 258),
                   top_of_book_eliminated("IBM", "Sell")}}

RawBuffers ==
    LET OtherVersions == {0, 2, 255}
        TypeBytes == {0, 1, 2, 3, 4, 9, 10, 11, 12, 13, 14, 255}
        UnlistedTypeBytes == {4, 9, 14, 255}
        Retagged(frame, type_byte, version) ==
            <<type_byte, version>> \o SubSeq(frame, 3, Len(frame))
        Prefixes(frame) == {SubSeq(frame, 1, k) : k \in 0..Len(frame)}
    IN  UNION {Prefixes(f) : f \in FullFrames}
        \cup UNION {Prefixes(Retagged(f, t, v)) :
                      f \in FullFrames, t \in TypeBytes, v \in OtherVersions}
        \cup UNION {Prefixes(Retagged(f, t, PROTOCOL_VERSION)) :
                      f \in FullFrames, t \in UnlistedTypeBytes}

\* ------------------------------------------------------------------------
\* History of TopOfBook events emitted by add_order / cancel_order
\* ------------------------------------------------------------------------
NoEvent == [seen |-> FALSE, price |-> 0, total_quantity |-> 0]

EmptyTobLog == [k \in Symbols \X Sides |-> NoEvent]

TobIndexes(outs, symbol, side) ==
    {i \in 1..Len(outs) : /\ outs[i].type = "TopOfBook"
                          /\ outs[i].symbol = symbol
                          /\ outs[i].side = side}

RecordTob(log, outs) ==
    [k \in Symbols \X Sides |->
        LET is == TobIndexes(outs, k[1], k[2]) IN
        IF is = {} THEN log[k]
        ELSE [seen |-> TRUE, price |-> outs[Max(is)].price,
              total_quantity |-> outs[Max(is)].total_quantity]]

\* ------------------------------------------------------------------------
\* engine-server: the tasks of server.rs, client.rs and engine_task.rs and
\* the channels between them
\* ------------------------------------------------------------------------
ClientIds == 1..MaxClientIds

\* Mutant of mpsc_send: the message goes to the front of the channel
mpsc_send_front(queue, item) == <<item>> \o queue

\* UnboundedSender::send on a channel whose receiver lives
mpsc_send(queue, item) == Append(queue, item)

\* ------------------------------------------------------------------------
\* History of the orders whose (user_id, user_order_id) pairs are unique:
\* what each key ordered, what the Trade messages naming it add up to, and
\* whether a Cancel removed it from a book
\* ------------------------------------------------------------------------
UniqueOrderIds == 1..MaxUniqueOrders

UniqueKeys == UserIds \X UniqueOrderIds

\* The second engine after MatchingEngine::new, with no output yet
NewTwin == [books |-> EmptyMap, index |-> EmptyMap, outs |-> <<>>]

EmptyLedger ==
    [k \in UniqueKeys |-> [quantity |-> 0, traded |-> 0, cancelled |-> FALSE]]

TasksInit ==
    /\ clients = {}
    /\ engine_rx = <<>>
    /\ outbound = [c \in ClientIds |-> <<>>]
    /\ tasks = [c \in ClientIds |->
                   [reader |-> "none", writer |-> "none", taken |-> 0]]
    /\ engine_task = [pc |-> "recv", req |-> 0, target |-> 0, idx |-> 1,
                      done |-> {}, log |-> <<>>]
    /\ arrived = 0

\* run has bound the listener at the first attempt and is in its accept loop
ServerInit ==
    /\ TasksInit
    /\ server = "accept"
    /\ listener = [port |-> DEFAULT_PORT, attempts |-> 1,
                   tried |-> <<[port |-> DEFAULT_PORT, outcome |-> "Ok"]>>,
                   build |-> "release"]

\* ------------------------------------------------------------------------
\* State machine: MatchingEngine::process_message, one action per variant
\* ------------------------------------------------------------------------
Init ==
    /\ order_books = EmptyMap
    /\ order_to_symbol = EmptyMap
    /\ outputs = <<>>
    /\ last_msg = [type |-> "None"]
    /\ fills = <<>>
    /\ clock = 0
    /\ tob_log = EmptyTobLog
    /\ tob_log_flush = EmptyTobLog
    /\ sent = [type |-> "None"]
    /\ protocol = "None"
    /\ wire = <<>>
    /\ parsed = None
    /\ decoder = "None"
    /\ ledger = EmptyLedger
    /\ twin = NewTwin
    /\ ServerInit

\* process_message(InputMessage::NewOrder) for a symbol of syms, while fewer
\* than max_orders orders have been created
NewOrderWith(syms, keys, max_orders) ==
    /\ clock < max_orders
    /\ \E symbol \in syms, key \in keys, price \in Prices,
          quantity \in Quantities, side \in Sides :
        LET msg == [type |-> "NewOrder", user_id |-> key[1],
                    symbol |-> symbol, price |-> price,
                    quantity |-> quantity, side |-> side,
                    user_order_id |-> key[2]]
        IN  \E r \in {process_new_order(order_books, order_to_symbol, msg,
                                        clock)} :
            /\ order_books' = r.books
            /\ order_to_symbol' = r.index
            /\ outputs' = r.outs
            /\ fills' = r.fills
            /\ last_msg' = msg
            /\ clock' = clock + 1
            /\ tob_log' = RecordTob(tob_log, r.outs)
            /\ tob_log_flush' = RecordTob(tob_log_flush, r.outs)
            /\ UNCHANGED <<front_vars, server_vars>>

NewOrderIn(syms, max_orders) ==
    /\ NewOrderWith(syms, UserIds \X UserOrderIds, max_orders)
    /\ UNCHANGED observer_vars

NewOrderStep == NewOrderIn(Symbols, MaxOrders)

CancelWith(keys) ==
    \E key \in keys :
        LET msg == [type |-> "Cancel", user_id |-> key[1],
                    user_order_id |-> key[2]]
        IN  \E r \in {process_cancel(order_books, order_to_symbol, msg)} :
            /\ order_books' = r.books
            /\ order_to_symbol' = r.index
            /\ outputs' = r.outs
            /\ fills' = <<>>
            /\ last_msg' = msg
            /\ tob_log' = RecordTob(tob_log, r.outs)
            /\ tob_log_flush' = RecordTob(tob_log_flush, r.outs)
            /\ UNCHANGED <<clock, front_vars, server_vars>>

CancelStep ==
    /\ CancelWith(UserIds \X UserOrderIds)
    /\ UNCHANGED observer_vars

FlushWith ==
    LET r == process_flush(order_books, order_to_symbol)
    IN  /\ order_books' = r.books
        /\ order_to_symbol' = r.index
        /\ outputs' = r.outs
        /\ fills' = <<>>
        /\ last_msg' = [type |-> "Flush"]
        /\ tob_log_flush' = EmptyTobLog
        /\ UNCHANGED <<clock, tob_log, front_vars, server_vars>>

FlushStep ==
    /\ FlushWith
    /\ UNCHANGED observer_vars

\* Mutant of QueryIn: the query creates the book of an unknown symbol
QueryIn_creating(syms) ==
    \E symbol \in syms :
        /\ outputs' = process_query_top_of_book(order_books, symbol)
        /\ order_books' = get_or_create_order_book(order_books, symbol)
        /\ fills' = <<>>
        /\ last_msg' = [type |-> "QueryTopOfBook", symbol |-> symbol]
        /\ UNCHANGED <<order_to_symbol, clock, tob_log, tob_log_flush,
                       front_vars, server_vars, observer_vars>>

\* process_message(InputMessage::QueryTopOfBook) for a symbol of syms
QueryIn(syms) ==
    \E symbol \in syms :
        /\ outputs' = process_query_top_of_book(order_books, symbol)
        /\ fills' = <<>>
        /\ last_msg' = [type |-> "QueryTopOfBook", symbol |-> symbol]
        /\ UNCHANGED <<order_books, order_to_symbol, clock, tob_log,
                       tob_log_flush, front_vars,
                       server_vars, observer_vars>>

QueryStep == QueryIn(Symbols)

Next == NewOrderStep \/ CancelStep \/ FlushStep \/ QueryStep

Spec == Init /\ [][Next]_vars

\* The engine driven with orders and queries of a single symbol, which
\* affords a deeper book
BookNewOrderStep == NewOrderIn(BookSymbols, MaxBookOrders)

BookQueryStep == QueryIn(BookSymbols)

BookNext == BookNewOrderStep \/ CancelStep \/ FlushStep \/ BookQueryStep

BookSpec == Init /\ [][BookNext]_vars

\* ------------------------------------------------------------------------
\* The binary codec between a client and the server: one message is
\* encoded on one side and the frame is decoded on the other
\* ------------------------------------------------------------------------
\* client: encode_input ; server: decode_input
EncodeInputStep ==
    \E m \in InputMessages :
        \E e \in {encode_input(m, <<>>)} :
            /\ sent' = m
            /\ protocol' = "Binary"
            /\ wire' = e.out
            /\ parsed' = IF e.ok THEN decode_input(e.out)
                         ELSE [ok |-> FALSE, err |-> e.err]
            /\ decoder' = "decode_input"
            /\ UNCHANGED <<engine_vars, server_vars, observer_vars>>

\* server: encode_output ; client: decode_output
EncodeOutputStep ==
    \E m \in OutputMessages :
        \E e \in {encode_output(m, <<>>)} :
            /\ sent' = m
            /\ protocol' = "Binary"
            /\ wire' = e.out
            /\ parsed' = IF e.ok THEN decode_output(e.out)
                         ELSE [ok |-> FALSE, err |-> e.err]
            /\ decoder' = "decode_output"
            /\ UNCHANGED <<engine_vars, server_vars, observer_vars>>

CodecNext == EncodeInputStep \/ EncodeOutputStep

CodecSpec == Init /\ [][CodecNext]_vars

\* ------------------------------------------------------------------------
\* The encoders given an output buffer that may already hold bytes: the
\* frame is appended to it.  parsed is the Result of the encoder.
\* ------------------------------------------------------------------------
\* The Vec<u8> handed to an encoder: empty, or holding an earlier frame
PriorBuffers == {<<>>, FlushFrame, CancelFrame(1, 258)}

EncodeInit ==
    /\ order_books = EmptyMap
    /\ order_to_symbol = EmptyMap
    /\ outputs = <<>>
    /\ last_msg = [type |-> "None"]
    /\ fills = <<>>
    /\ clock = 0
    /\ tob_log = EmptyTobLog
    /\ tob_log_flush = EmptyTobLog
    /\ sent = [type |-> "None"]
    /\ protocol = "Binary"
    /\ wire \in PriorBuffers
    /\ parsed = None
    /\ decoder = "None"
    /\ ledger = EmptyLedger
    /\ twin = NewTwin
    /\ ServerInit

\* The Result<(), ProtocolError> of an encoder
EncodeResult(e) ==
    IF e.ok THEN Ok([type |-> "Unit"]) ELSE [ok |-> FALSE, err |-> e.err]

\* encode_input(&msg, &mut out)
EncodeInputOnto ==
    /\ sent.type = "None"
    /\ \E m \in InputMessages :
        \E e \in {encode_input(m, wire)} :
            /\ sent' = m
            /\ wire' = e.out
            /\ parsed' = EncodeResult(e)
            /\ decoder' = "encode_input"
            /\ UNCHANGED <<engine_vars, protocol, server_vars, observer_vars>>

\* encode_output(&msg, &mut out)
EncodeOutputOnto ==
    /\ sent.type = "None"
    /\ \E m \in OutputMessages :
        \E e \in {encode_output(m, wire)} :
            /\ sent' = m
            /\ wire' = e.out
            /\ parsed' = EncodeResult(e)
            /\ decoder' = "encode_output"
            /\ UNCHANGED <<engine_vars, protocol, server_vars, observer_vars>>

EncodeNext == EncodeInputOnto \/ EncodeOutputOnto

EncodeSpec == EncodeInit /\ [][EncodeNext]_vars

\* ------------------------------------------------------------------------
\* The decoders given the bytes a peer sent, whatever they are
\* ------------------------------------------------------------------------
\* a buffer has arrived
DecodeInit ==
    /\ order_books = EmptyMap
    /\ order_to_symbol = EmptyMap
    /\ outputs = <<>>
    /\ last_msg = [type |-> "None"]
    /\ fills = <<>>
    /\ clock = 0
    /\ tob_log = EmptyTobLog
    /\ tob_log_flush = EmptyTobLog
    /\ sent = [type |-> "None"]
    /\ protocol = "Binary"
    /\ wire \in RawBuffers
    /\ parsed = None
    /\ decoder = "None"
    /\ ledger = EmptyLedger
    /\ twin = NewTwin
    /\ ServerInit

\* server: decode_input(&buf)
DecodeInputStep ==
    /\ parsed' = decode_input(wire)
    /\ decoder' = "decode_input"
    /\ UNCHANGED <<engine_vars, sent, protocol, wire, server_vars,
                   observer_vars>>

\* client: decode_output(&buf)
DecodeOutputStep ==
    /\ parsed' = decode_output(wire)
    /\ decoder' = "decode_output"
    /\ UNCHANGED <<engine_vars, sent, protocol, wire, server_vars,
                   observer_vars>>

DecodeNext == DecodeInputStep \/ DecodeOutputStep

DecodeSpec == DecodeInit /\ [][DecodeNext]_vars

\* ------------------------------------------------------------------------
\* The front-ends of the server: a reader task turns a frame or a line
\* into an InputMessage and the engine task processes it
\* ------------------------------------------------------------------------
\* run_engine_loop: engine.process_message(msg), while fewer than
\* max_orders orders have been created
DispatchWithin(msg, max_orders) ==
    /\ msg.type = "NewOrder" => clock < max_orders
    /\ \E r \in {process_message(order_books, order_to_symbol, msg, clock)} :
        /\ order_books' = r.books
        /\ order_to_symbol' = r.index
        /\ outputs' = r.outs
        /\ fills' = r.fills
        /\ last_msg' = msg
        /\ clock' = IF msg.type = "NewOrder" THEN clock + 1 ELSE clock
        /\ tob_log' = RecordTob(tob_log, r.outs)
        /\ tob_log_flush' = IF msg.type = "Flush" THEN EmptyTobLog
                            ELSE RecordTob(tob_log_flush, r.outs)

Dispatch(msg) == DispatchWithin(msg, MaxFrontOrders)

\* The reader drops the input: nothing reaches the engine
Dropped ==
    /\ outputs' = <<>>
    /\ fills' = <<>>
    /\ last_msg' = [type |-> "None"]
    /\ UNCHANGED <<order_books, order_to_symbol, clock, tob_log,
                   tob_log_flush>>

\* run_binary_reader, one frame
BinaryFrameStep ==
    \E frame \in BinaryFrames :
        /\ protocol' = "Binary"
        /\ wire' = frame
        /\ decoder' = "decode_input"
        /\ \E r \in {decode_input(frame)} :
            /\ parsed' = r
            /\ IF r.ok THEN Dispatch(r.msg) ELSE Dropped
        /\ UNCHANGED <<sent, server_vars, observer_vars>>

\* run_csv_reader, one line
CsvLineStep ==
    \E line \in CsvLines :
        /\ protocol' = "Csv"
        /\ wire' = line
        /\ decoder' = "parse_input_line"
        /\ \E r \in {parse_input_line(line)} :
            /\ parsed' = r
            /\ IF r.ok THEN Dispatch(r.msg) ELSE Dropped
        /\ UNCHANGED <<sent, server_vars, observer_vars>>

FrontEndNext == BinaryFrameStep \/ CsvLineStep

FrontEndSpec == Init /\ [][FrontEndNext]_vars

\* ------------------------------------------------------------------------
\* Frames on the TCP stream from a client to the server.  wire is the
\* bytes written and not yet read; one frame is in flight at a time.
\* ------------------------------------------------------------------------
\* BufMut::put_u32_le
put_u32_le(n) ==
    <<n % 256, (n \div 256) % 256, (n \div 65536) % 256,
      (n \div 16777216) % 256>>

FramedMessages ==
    {NewOrderMsg(1, "IBM", 1, 1, "Buy", 1),
     NewOrderMsg(2, Sym32, 1, 1, "Sell", 1),
     CancelMsg(1, 1), CancelMsg(258, BigU32), FlushMsg,
     QueryMsg("IBM"), QueryMsg("")}

\* A client hands msg to encode_input and writes the length prefix made by
\* length_prefix, then the payload; an encoding error writes nothing
WriteFrame(msg, length_prefix) ==
    /\ wire = <<>>
    /\ \E e \in {encode_input(msg, <<>>)} :
        /\ sent' = msg
        /\ protocol' = "Binary"
        /\ wire' = IF e.ok THEN length_prefix[Len(e.out)] \o e.out ELSE <<>>
        /\ parsed' = None
        /\ decoder' = "None"
        /\ UNCHANGED <<engine_vars, server_vars, observer_vars>>

\* EngineConnection::send
ConnectionSendStep ==
    \E msg \in FramedMessages :
        WriteFrame(msg, [n \in 0..64 |-> put_u32_le(n)])

\* examples/tcp_client.rs, examples/query_top_of_book.rs
ExampleSendStep ==
    \E msg \in FramedMessages :
        WriteFrame(msg, [n \in 0..64 |-> to_be_bytes(n)])

\* run_binary_reader, one turn of the loop: read_exact returns once the
\* bytes it waits for have arrived
BinaryReaderStep ==
    /\ Len(wire) >= 4
    /\ LET frame_len == read_u32_be(SubSeq(wire, 1, 4))
       IN  /\ Len(wire) >= 4 + frame_len
           /\ wire' = SubSeq(wire, 5 + frame_len, Len(wire))
           /\ protocol' = "Binary"
           /\ UNCHANGED <<sent, server_vars, observer_vars>>
           /\ IF frame_len = 0
              THEN UNCHANGED <<engine_vars, parsed, decoder>>
              ELSE \E r \in {decode_input(SubSeq(wire, 5, 4 + frame_len))} :
                    /\ parsed' = r
                    /\ decoder' = "decode_input"
                    /\ IF r.ok THEN Dispatch(r.msg) ELSE Dropped

FramingNext == ConnectionSendStep \/ ExampleSendStep \/ BinaryReaderStep

FramingSpec == Init /\ [][FramingNext]_vars

\* ------------------------------------------------------------------------
\* The server: an acceptor, a reader task and a writer task per client, and
\* the engine task.  The registry lock is read-held while engine_task.pc is
\* "fanout"; a writer of the registry waits for it.
\* ------------------------------------------------------------------------
ServerMessages ==
    {NewOrderMsg(1, "IBM", 1, 1, "Buy", 1), CancelMsg(1, 1), FlushMsg}

\* Mutant of Accept: the client is registered without the write lock
Accept_unlocked ==
    /\ server = "accept"
    /\ \E c \in ClientIds :
        /\ tasks[c].reader = "none"
        /\ \A b \in ClientIds : b < c => tasks[b].reader # "none"
        /\ clients' = clients \cup {c}
        /\ tasks' = [tasks EXCEPT ![c] = [reader |-> "running",
                                          writer |-> "running", taken |-> 0]]
    /\ UNCHANGED <<engine_vars, front_vars, observer_vars, engine_rx,
                   outbound, engine_task, arrived, server, listener>>

\* run, Ok((stream, peer_addr)): next_client_id, clients.write().insert and
\* the spawn of run_client with its writer task
Accept ==
    /\ server = "accept"
    /\ engine_task.pc # "fanout"
    /\ \E c \in ClientIds :
        /\ tasks[c].reader = "none"
        /\ \A b \in ClientIds : b < c => tasks[b].reader # "none"
        /\ clients' = clients \cup {c}
        /\ tasks' = [tasks EXCEPT ![c] = [reader |-> "running",
                                          writer |-> "running", taken |-> 0]]
    /\ UNCHANGED <<engine_vars, front_vars, observer_vars, engine_rx,
                   outbound, engine_task, arrived, server, listener>>

\* run_csv_reader / run_binary_reader: engine_tx.send(req), while fewer than
\* MaxRequests requests have been sent
ReaderSend ==
    /\ arrived < MaxRequests
    /\ \E c \in ClientIds, m \in ServerMessages :
        /\ tasks[c].reader = "running"
        /\ engine_rx' = mpsc_send(engine_rx, [client_id |-> c, msg |-> m,
                                              seq |-> arrived + 1])
        /\ arrived' = arrived + 1
    /\ UNCHANGED <<engine_vars, front_vars, observer_vars, clients, outbound,
                   tasks, engine_task, server, listener>>

\* run_csv_reader / run_binary_reader after the loop:
\* clients.write().remove(&client_id)
ReaderExit ==
    /\ engine_task.pc # "fanout"
    /\ \E c \in ClientIds :
        /\ tasks[c].reader = "running"
        /\ clients' = clients \ {c}
        /\ tasks' = [tasks EXCEPT ![c].reader = "ended"]
    /\ UNCHANGED <<engine_vars, front_vars, observer_vars, engine_rx,
                   outbound, engine_task, arrived, server, listener>>

\* writer task: out_rx.recv() and write_csv_message succeeds
WriterWrite ==
    /\ \E c \in ClientIds :
        /\ tasks[c].writer = "running"
        /\ tasks[c].taken < Len(outbound[c])
        /\ tasks' = [tasks EXCEPT ![c].taken = @ + 1]
    /\ UNCHANGED <<engine_vars, front_vars, observer_vars, clients, engine_rx,
                   outbound, engine_task, arrived, server, listener>>

\* writer task: out_rx.recv() and write_csv_message fails; the task ends
\* and drops out_rx
WriterExit ==
    /\ \E c \in ClientIds :
        /\ tasks[c].writer = "running"
        /\ tasks[c].taken < Len(outbound[c])
        /\ tasks' = [tasks EXCEPT ![c].writer = "ended"]
    /\ UNCHANGED <<engine_vars, front_vars, observer_vars, clients, engine_rx,
                   outbound, engine_task, arrived, server, listener>>

\* run_engine_loop: engine_rx.recv() and engine.process_message(msg)
EngineRecv ==
    /\ engine_task.pc = "recv"
    /\ engine_rx # <<>>
    /\ DispatchWithin(Head(engine_rx).msg, MaxRequests)
    /\ engine_rx' = Tail(engine_rx)
    /\ engine_task' = [engine_task EXCEPT !.pc = "lock",
                                          !.req = Head(engine_rx).seq]
    /\ UNCHANGED <<front_vars, observer_vars, clients, outbound, tasks,
                   arrived, server, listener>>

\* run_engine_loop: clients.read().await ; with nothing to send the guard
\* is dropped at once
EngineLock ==
    /\ engine_task.pc = "lock"
    /\ engine_task' =
         [engine_task EXCEPT
            !.pc = IF clients = {} \/ outputs = <<>> THEN "recv"
                   ELSE "fanout",
            !.log = Append(@, [req |-> engine_task.req, n |-> Len(outputs),
                               to |-> clients])]
    /\ UNCHANGED <<engine_vars, front_vars, observer_vars, clients, engine_rx,
                   outbound, tasks, arrived, server, listener>>

\* Mutant of EngineSend: a send that fails ends the fan-out of the request
EngineSend_stop_on_error ==
    /\ engine_task.pc = "fanout"
    /\ \E t \in (IF engine_task.target # 0 THEN {engine_task.target}
                 ELSE clients \ engine_task.done) :
        LET i == engine_task.idx
            failed == tasks[t].writer # "running"
            last == i = Len(outputs)
            done == IF last THEN engine_task.done \cup {t}
                    ELSE engine_task.done
            finished == failed \/ (last /\ clients \subseteq done)
        IN  /\ outbound' =
                 IF ~failed
                 THEN [outbound EXCEPT ![t] =
                         mpsc_send(@, [req |-> engine_task.req, idx |-> i,
                                       out |-> outputs[i]])]
                 ELSE outbound
            /\ engine_task' =
                 [engine_task EXCEPT
                    !.target = IF last \/ failed THEN 0 ELSE t,
                    !.idx = IF last \/ failed THEN 1 ELSE i + 1,
                    !.done = IF finished THEN {} ELSE done,
                    !.pc = IF finished THEN "recv" ELSE "fanout"]
    /\ UNCHANGED <<engine_vars, front_vars, observer_vars, clients, engine_rx,
                   tasks, arrived, server, listener>>

\* run_engine_loop: one tx.send(out.clone()) of the two loops; guard.iter()
\* visits the registry in any order
EngineSend ==
    /\ engine_task.pc = "fanout"
    /\ \E t \in (IF engine_task.target # 0 THEN {engine_task.target}
                 ELSE clients \ engine_task.done) :
        LET i == engine_task.idx
            last == i = Len(outputs)
            done == IF last THEN engine_task.done \cup {t}
                    ELSE engine_task.done
            finished == last /\ clients \subseteq done
        IN  /\ outbound' =
                 IF tasks[t].writer = "running"
                 THEN [outbound EXCEPT ![t] =
                         mpsc_send(@, [req |-> engine_task.req, idx |-> i,
                                       out |-> outputs[i]])]
                 ELSE outbound
            /\ engine_task' =
                 [engine_task EXCEPT
                    !.target = IF last THEN 0 ELSE t,
                    !.idx = IF last THEN 1 ELSE i + 1,
                    !.done = IF finished THEN {} ELSE done,
                    !.pc = IF finished THEN "recv" ELSE "fanout"]
    /\ UNCHANGED <<engine_vars, front_vars, observer_vars, clients, engine_rx,
                   tasks, arrived, server, listener>>

ServerNext ==
    \/ Accept
    \/ ReaderSend
    \/ ReaderExit
    \/ WriterWrite
    \/ WriterExit
    \/ EngineRecv
    \/ EngineLock
    \/ EngineSend

ServerSpec == Init /\ [][ServerNext]_vars

\* ------------------------------------------------------------------------
\* The accept loop with a registry that config.max_clients limits.  The
\* loop looks at the size of the registry under the read lock and inserts
\* under the write lock: reader tasks and the engine task run in between.
\* A connection is "admitted" from the first step to the second.
\* ------------------------------------------------------------------------
\* Mutant of AcceptCheck: a connection is turned away when the registry
\* holds more than max_clients entries
AcceptCheck_off_by_one ==
    /\ \A b \in ClientIds : tasks[b].reader # "admitted"
    /\ \E c \in ClientIds :
        /\ tasks[c].reader = "none"
        /\ \A b \in ClientIds : b < c => tasks[b].reader # "none"
        /\ tasks' = [tasks EXCEPT ![c].reader =
                        IF Cardinality(clients) > max_clients
                        THEN "rejected" ELSE "admitted"]
    /\ UNCHANGED <<engine_vars, front_vars, observer_vars, clients, engine_rx,
                   outbound, engine_task, arrived, server, listener>>

\* run, Ok((stream, peer_addr)): clients.read().await.len() and the test
\* against config.max_clients; `continue` drops the stream
AcceptCheck ==
    /\ \A b \in ClientIds : tasks[b].reader # "admitted"
    /\ \E c \in ClientIds :
        /\ tasks[c].reader = "none"
        /\ \A b \in ClientIds : b < c => tasks[b].reader # "none"
        /\ tasks' = [tasks EXCEPT ![c].reader =
                        IF Cardinality(clients) >= max_clients
                        THEN "rejected" ELSE "admitted"]
    /\ UNCHANGED <<engine_vars, front_vars, observer_vars, clients, engine_rx,
                   outbound, engine_task, arrived, server, listener>>

\* run: clients.write().await.insert(client_id, out_tx) and the spawn of
\* run_client with its writer task
AcceptInsert ==
    /\ engine_task.pc # "fanout"
    /\ \E c \in ClientIds :
        /\ tasks[c].reader = "admitted"
        /\ clients' = clients \cup {c}
        /\ tasks' = [tasks EXCEPT ![c] = [reader |-> "running",
                                          writer |-> "running", taken |-> 0]]
    /\ UNCHANGED <<engine_vars, front_vars, observer_vars, engine_rx,
                   outbound, engine_task, arrived, server, listener>>

AdmissionNext ==
    \/ AcceptCheck
    \/ AcceptInsert
    \/ ReaderSend
    \/ ReaderExit
    \/ EngineRecv
    \/ EngineLock
    \/ EngineSend

AdmissionSpec == Init /\ [][AdmissionNext]_vars

\* ------------------------------------------------------------------------
\* The server with the end of a reader task in two steps: the loop of the
\* reader breaks, then the task waits for the write lock of the registry
\* and removes its client.  Tokio runs every task that can run, and its
\* RwLock serves the waiting tasks in turn.
\* ------------------------------------------------------------------------
\* run_csv_reader / run_binary_reader: Ok(0), a read error or a decode
\* error breaks the loop
ReaderBreak ==
    /\ \E c \in ClientIds :
        /\ tasks[c].reader = "running"
        /\ tasks' = [tasks EXCEPT ![c].reader = "leaving"]
    /\ UNCHANGED <<engine_vars, front_vars, observer_vars, clients, engine_rx,
                   outbound, engine_task, arrived, server, listener>>

\* run_csv_reader / run_binary_reader after the loop:
\* clients.write().await.remove(&client_id)
ReaderRemove ==
    /\ engine_task.pc # "fanout"
    /\ \E c \in ClientIds :
        /\ tasks[c].reader = "leaving"
        /\ clients' = clients \ {c}
        /\ tasks' = [tasks EXCEPT ![c].reader = "ended"]
    /\ UNCHANGED <<engine_vars, front_vars, observer_vars, engine_rx,
                   outbound, engine_task, arrived, server, listener>>

DisconnectNext ==
    \/ Accept
    \/ ReaderSend
    \/ ReaderBreak
    \/ ReaderRemove
    \/ WriterWrite
    \/ WriterExit
    \/ EngineRecv
    \/ EngineLock
    \/ EngineSend

\* EngineRecv is enabled when the engine task waits on a channel that holds
\* a request, and a step that ends this is a step of EngineRecv:
\* WF_vars(EngineRecv) says that this does not last for ever
EngineRecvFair ==
    []<>~(engine_task.pc = "recv" /\ engine_rx # <<>>)

DisconnectSpec ==
    /\ Init
    /\ [][DisconnectNext]_vars
    /\ WF_vars(ReaderRemove)
    /\ EngineRecvFair
    /\ WF_vars(EngineLock)
    /\ WF_vars(EngineSend)

\* ------------------------------------------------------------------------
\* The server from Ctrl+C to the return of run.  A reader task owns a clone
\* of engine_tx from its spawn until run_csv_reader / run_binary_reader
\* returns: the request channel is closed once run has dropped its engine_tx
\* and no reader task is left.  main returns with run, and the runtime that
\* is dropped with it cancels the tasks that are still waiting.
\* ------------------------------------------------------------------------
\* The tasks that hold a sender of the request channel
EngineTxHolders ==
    {c \in ClientIds : tasks[c].reader \in {"running", "leaving"}}

\* run: ctrl_c() of the select!, break, drop(engine_tx)
CtrlC ==
    /\ server = "accept"
    /\ server' = "dropped"
    /\ UNCHANGED <<engine_vars, front_vars, observer_vars, clients, engine_rx,
                   outbound, tasks, engine_task, arrived, listener>>

\* run: clients.write().await.clear()
ClearRegistry ==
    /\ server = "dropped"
    /\ engine_task.pc # "fanout"
    /\ clients' = {}
    /\ server' = "cleared"
    /\ UNCHANGED <<engine_vars, front_vars, observer_vars, engine_rx,
                   outbound, tasks, engine_task, arrived, listener>>

\* run_engine_loop: engine_rx.recv() returns None, the loop ends and the
\* statistics are printed
EngineStop ==
    /\ engine_task.pc = "recv"
    /\ engine_rx = <<>>
    /\ server # "accept"
    /\ EngineTxHolders = {}
    /\ engine_task' = [engine_task EXCEPT !.pc = "stopped"]
    /\ UNCHANGED <<engine_vars, front_vars, observer_vars, clients, engine_rx,
                   outbound, tasks, arrived, server, listener>>

\* run: time::sleep(200 ms) and Ok(()); main returns and the tasks that have
\* not ended are dropped
RunReturns ==
    /\ server = "cleared"
    /\ server' = "returned"
    /\ engine_task' = [engine_task EXCEPT
                          !.pc = IF @ = "stopped" THEN @ ELSE "cancelled"]
    /\ tasks' = [c \in ClientIds |->
                    [tasks[c] EXCEPT
                        !.reader = IF @ = "none" THEN @ ELSE "ended",
                        !.writer = IF @ = "none" THEN @ ELSE "ended"]]
    /\ UNCHANGED <<engine_vars, front_vars, observer_vars, clients, engine_rx,
                   outbound, arrived, listener>>

ShutdownNext ==
    \/ Accept
    \/ ReaderSend
    \/ ReaderBreak
    \/ ReaderRemove
    \/ EngineRecv
    \/ EngineLock
    \/ EngineSend
    \/ CtrlC
    \/ ClearRegistry
    \/ EngineStop
    \/ RunReturns

\* The tasks of the runtime are scheduled for as long as they can run, and
\* run goes from the drop of engine_tx to its return without waiting for
\* anything but the registry lock and the timer
ShutdownSpec ==
    /\ Init
    /\ [][ShutdownNext]_vars
    /\ WF_vars(ReaderRemove)
    /\ EngineRecvFair
    /\ WF_vars(EngineLock)
    /\ WF_vars(EngineSend)
    /\ WF_vars(EngineStop)
    /\ WF_vars(ClearRegistry)
    /\ WF_vars(RunReturns)

\* ------------------------------------------------------------------------
\* bind_with_port_bump, called by run with config.port.  What
\* TcpListener::bind returns is the choice of the host.  `port + 1` is u16
\* arithmetic: a build with overflow checks (debug) panics where a build
\* without them (release) wraps to 0.
\* ------------------------------------------------------------------------
U16_MAX == 2^16 - 1

LowPorts == 0..MaxPorts

HighPorts == (U16_MAX - MaxPorts)..U16_MAX

Ports == LowPorts \cup HighPorts

Builds == {"debug", "release"}

\* std::io::ErrorKind of a failed bind
BindErrors == {"AddrInUse", "PermissionDenied"}

\* run(config) has called bind_with_port_bump(bind_addr, config.port)
BindInit ==
    /\ order_books = EmptyMap
    /\ order_to_symbol = EmptyMap
    /\ outputs = <<>>
    /\ last_msg = [type |-> "None"]
    /\ fills = <<>>
    /\ clock = 0
    /\ tob_log = EmptyTobLog
    /\ tob_log_flush = EmptyTobLog
    /\ sent = [type |-> "None"]
    /\ protocol = "None"
    /\ wire = <<>>
    /\ parsed = None
    /\ decoder = "None"
    /\ ledger = EmptyLedger
    /\ twin = NewTwin
    /\ TasksInit
    /\ server = "bind"
    /\ listener \in {[port |-> p, attempts |-> 0, tried |-> <<>>,
                      build |-> b] : p \in Ports, b \in Builds}

\* attempts += 1 and TcpListener::bind(&addr_string) with its outcome
Attempt(outcome) ==
    [listener EXCEPT
        !.attempts = @ + 1,
        !.tried = Append(@, [port |-> listener.port, outcome |-> outcome])]

\* Ok(listener) => return Ok((listener, bind_addr, port, attempts))
BindOk ==
    /\ server = "bind"
    /\ listener' = Attempt("Ok")
    /\ server' = "accept"
    /\ UNCHANGED <<engine_vars, front_vars, observer_vars, clients,
                   engine_rx, outbound, tasks, engine_task, arrived>>

\* Err(e) if e.kind() == AddrInUse && attempts < 3: port + 1 is printed and
\* assigned to port
BindAddrInUse ==
    /\ server = "bind"
    /\ listener.attempts + 1 < 3
    /\ IF listener.port + 1 > U16_MAX /\ listener.build = "debug"
       THEN /\ listener' = Attempt("AddrInUse")
            /\ server' = "panicked"
       ELSE /\ listener' = [Attempt("AddrInUse") EXCEPT
                               !.port = (@ + 1) % (U16_MAX + 1)]
            /\ UNCHANGED server
    /\ UNCHANGED <<engine_vars, front_vars, observer_vars, clients,
                   engine_rx, outbound, tasks, engine_task, arrived>>

\* Err(e) => return Err(e), and run returns it
BindErr ==
    /\ server = "bind"
    /\ \E e \in BindErrors :
        /\ e = "AddrInUse" => ~(listener.attempts + 1 < 3)
        /\ listener' = Attempt(e)
    /\ server' = "failed"
    /\ UNCHANGED <<engine_vars, front_vars, observer_vars, clients,
                   engine_rx, outbound, tasks, engine_task, arrived>>

BindNext ==
    \/ BindOk
    \/ BindAddrInUse
    \/ BindErr

BindSpec == BindInit /\ [][BindNext]_vars

\* ------------------------------------------------------------------------
\* The binary front-end fed with orders of the largest quantities
\* ------------------------------------------------------------------------
\* run_binary_reader, one frame of frames
HeavyFrameIn(frames) ==
    \E frame \in frames :
        /\ protocol' = "Binary"
        /\ wire' = frame
        /\ decoder' = "decode_input"
        /\ \E r \in {decode_input(frame)} :
            /\ parsed' = r
            /\ IF r.ok THEN DispatchWithin(r.msg, MaxHeavyOrders) ELSE Dropped
        /\ UNCHANGED <<sent, server_vars, observer_vars>>

\* a NewOrder frame of quantity 1 or u32::MAX
HeavyOrderStep ==
    HeavyFrameIn({NewOrderFrame(1, i, p, q, sd, "IBM") :
                    i \in 1..MaxHeavyOrders, p \in {1, 2}, q \in {1, U32_MAX},
                    sd \in {0, 1}})

\* a Cancel frame
HeavyCancelStep ==
    HeavyFrameIn({CancelFrame(1, i) : i \in 1..MaxHeavyOrders})

HeavyNext == HeavyOrderStep \/ HeavyCancelStep

HeavySpec == Init /\ [][HeavyNext]_vars

\* ------------------------------------------------------------------------
\* Clients whose (user_id, user_order_id) pairs are unique: the n-th
\* NewOrder of a user carries user_order_id n
\* ------------------------------------------------------------------------
\* The quantity of the Trade messages of outs that name key on either side
RECURSIVE TradedWith(_, _)
TradedWith(outs, key) ==
    IF outs = <<>> THEN 0
    ELSE (IF /\ Head(outs).type = "Trade"
             /\ \/ key = <<Head(outs).user_id_buy,
                           Head(outs).user_order_id_buy>>
                \/ key = <<Head(outs).user_id_sell,
                           Head(outs).user_order_id_sell>>
          THEN Head(outs).quantity ELSE 0)
         + TradedWith(Tail(outs), key)

\* The ledger after a NewOrder msg that produced outs
LedgerAfterOrder(led, msg, outs) ==
    [k \in UniqueKeys |->
        IF k = <<msg.user_id, msg.user_order_id>>
        THEN [quantity |-> msg.quantity, traded |-> TradedWith(outs, k),
              cancelled |-> FALSE]
        ELSE [led[k] EXCEPT !.traded = @ + TradedWith(outs, k)]]

\* The ledger after a Cancel msg met the books
LedgerAfterCancel(led, msg, books) ==
    LET key == <<msg.user_id, msg.user_order_id>>
        holds(levels) == \E p \in DOMAIN levels :
                             \E i \in 1..Len(levels[p]) :
                                 /\ levels[p][i].user_id = key[1]
                                 /\ levels[p][i].user_order_id = key[2]
        resting == \E s \in DOMAIN books :
                       holds(books[s].bids) \/ holds(books[s].asks)
    IN  [led EXCEPT ![key].cancelled = @ \/ resting]

\* The keys the users have not used yet, one per user
FreshKeys ==
    {<<u, 1 + Cardinality({k \in UniqueKeys :
                              k[1] = u /\ ledger[k].quantity > 0})>> :
     u \in UserIds}

\* The keys of the orders sent so far
UsedKeys == {k \in UniqueKeys : ledger[k].quantity > 0}

UniqueNewOrderStep ==
    /\ NewOrderWith(BookSymbols, FreshKeys, MaxUniqueOrders)
    /\ ledger' = LedgerAfterOrder(ledger, last_msg', outputs')
    /\ UNCHANGED twin

UniqueCancelStep ==
    /\ CancelWith(UsedKeys)
    /\ ledger' = LedgerAfterCancel(ledger, last_msg', order_books)
    /\ UNCHANGED twin

UniqueNext == UniqueNewOrderStep \/ UniqueCancelStep

UniqueSpec == Init /\ [][UniqueNext]_vars

\* ------------------------------------------------------------------------
\* Two engines fed the same InputMessages.  Order::from_new_order_now reads
\* the wall clock: the first engine stamps its orders with the order count,
\* the second with any time, later or earlier than the stamps it has given
\* ------------------------------------------------------------------------
Timestamps == 0..MaxTimestamp

\* The second engine processes msg at time timestamp_ns
TwinAfter(t, msg, timestamp_ns) ==
    LET keep(r) == [books |-> r.books, index |-> r.index, outs |-> r.outs]
    IN  keep(process_message(t.books, t.index, msg, timestamp_ns))

TwinNewOrderStep ==
    /\ NewOrderWith(BookSymbols, UserIds \X UserOrderIds, MaxTwinOrders)
    /\ \E timestamp_ns \in Timestamps :
           twin' = TwinAfter(twin, last_msg', timestamp_ns)
    /\ UNCHANGED ledger

TwinCancelStep ==
    /\ CancelWith(UserIds \X UserOrderIds)
    /\ twin' = TwinAfter(twin, last_msg', 0)
    /\ UNCHANGED ledger

TwinFlushStep ==
    /\ FlushWith
    /\ twin' = TwinAfter(twin, last_msg', 0)
    /\ UNCHANGED ledger

TwinNext == TwinNewOrderStep \/ TwinCancelStep \/ TwinFlushStep

TwinSpec == Init /\ [][TwinNext]_vars

\* ------------------------------------------------------------------------
\* Vocabulary of the properties
\* ------------------------------------------------------------------------
\* The orders resting in one side of a book, whatever their level
RestingOrders(levels) ==
    UNION {{levels[p][i] : i \in 1..Len(levels[p])} : p \in DOMAIN levels}

\* The side of the book that holds the orders of a side
SideLevels(book, side) == IF side = "Buy" THEN book.bids ELSE book.asks

OppositeLevels(book, side) == IF side = "Buy" THEN book.asks ELSE book.bids

IsBookOp == last_msg.type \in {"NewOrder", "Cancel"}

TradeIndexes(outs) == {i \in 1..Len(outs) : outs[i].type = "Trade"}

\* ------------------------------------------------------------------------
\* C1: after any sequence of messages, a book with both maps non-empty has
\* max(keys(bids)) < min(keys(asks)): never locked or crossed at rest.
\* ------------------------------------------------------------------------
NeverCrossed ==
    \A s \in DOMAIN order_books :
        LET b == order_books[s] IN
        (DOMAIN b.bids # {} /\ DOMAIN b.asks # {})
            => Max(DOMAIN b.bids) < Min(DOMAIN b.asks)

\* A crossing Limit order traded and its residual rests opposite a
\* populated side
NeverCrossedWitness ==
    /\ last_msg.type = "NewOrder"
    /\ fills # <<>>
    /\ LET b == order_books[last_msg.symbol] IN
        /\ RestingOrders(b.bids) # {}
        /\ RestingOrders(b.asks) # {}
        /\ \E o \in RestingOrders(SideLevels(b, last_msg.side)) :
              o.timestamp_ns = clock - 1

\* ------------------------------------------------------------------------
\* C3: price-time priority.  At every fill the passive order is the front
\* of the best opposing level: no opposing resting order with remaining
\* quantity has a strictly better price, or the same price and an earlier
\* arrival.  A partially filled resting order stays at the front of its
\* level.
\* ------------------------------------------------------------------------
HasPriorityOver(o, passive, incoming_side) ==
    \/ (incoming_side = "Buy" /\ o.price < passive.price)
    \/ (incoming_side = "Sell" /\ o.price > passive.price)
    \/ (o.price = passive.price /\ o.timestamp_ns < passive.timestamp_ns)

PriceTimePriority ==
    /\ \A i \in 1..Len(fills) :
          LET f == fills[i] IN
          /\ f.passive \in RestingOrders(f.opposing)
          /\ f.passive.side # f.incoming.side
          /\ \A o \in RestingOrders(f.opposing) :
                o.remaining_qty > 0
                    => ~HasPriorityOver(o, f.passive, f.incoming.side)
    /\ fills # <<>> =>
          LET f == fills[Len(fills)]
              left == f.passive.remaining_qty - f.quantity
              lv == OppositeLevels(order_books[last_msg.symbol],
                                   f.incoming.side)
          IN  left > 0 =>
                /\ f.level_price \in DOMAIN lv
                /\ lv[f.level_price] # <<>>
                /\ Head(lv[f.level_price]) =
                      [f.passive EXCEPT !.remaining_qty = left]

\* A fill was made while several opposing orders were resting, so that
\* priority had to choose
PriceTimePriorityWitness ==
    \E i \in 1..Len(fills) :
        /\ Cardinality(RestingOrders(fills[i].opposing)) >= 2
        /\ fills[i].quantity > 0

\* ------------------------------------------------------------------------
\* C4: every Trade's price is the price of the resting order it fills, not
\* the incoming order's: a Limit Buy never trades above its limit, a Limit
\* Sell never below its limit, and no Trade has price 0.
\* ------------------------------------------------------------------------
TradeAtPassivePrice ==
    /\ Cardinality(TradeIndexes(outputs)) = Len(fills)
    /\ \A i \in 1..Len(fills) :
          LET f == fills[i]
              t == outputs[i + 1]
          IN  /\ t.type = "Trade"
              /\ t.price = f.passive.price
              /\ t.price # 0
              /\ (f.incoming.order_type = "Limit" /\ f.incoming.side = "Buy")
                    => t.price <= f.incoming.price
              /\ (f.incoming.order_type = "Limit" /\ f.incoming.side = "Sell")
                    => t.price >= f.incoming.price

\* A Limit order traded at a resting price different from its own limit
TradeAtPassivePriceWitness ==
    \E i \in 1..Len(fills) :
        /\ fills[i].incoming.order_type = "Limit"
        /\ fills[i].incoming.price # fills[i].passive.price
        /\ outputs[i + 1].type = "Trade"

\* ------------------------------------------------------------------------
\* C5: the outputs of one add_order are one Ack of the order with the book's
\* symbol, the Trades in fill order, then at most one bid TopOfBook, then at
\* most one ask TopOfBook; those of one cancel_order are one CancelAck, then
\* at most one bid TopOfBook, then at most one ask TopOfBook.
\* ------------------------------------------------------------------------
\* The tail of an output list: [TopOfBook{bid}?, TopOfBook{ask}?]
IsTobTail(outs, symbol) ==
    /\ Len(outs) <= 2
    /\ \A i \in 1..Len(outs) :
          outs[i].type = "TopOfBook" /\ outs[i].symbol = symbol
    /\ Len(outs) = 2 => (outs[1].side = "Buy" /\ outs[2].side = "Sell")

OutputShape ==
    /\ last_msg.type = "NewOrder" =>
          LET n == Len(fills) IN
          /\ Len(outputs) >= 1 + n
          /\ outputs[1] = ack(last_msg.user_id, last_msg.user_order_id,
                              last_msg.symbol)
          /\ \A i \in 1..n :
                /\ outputs[i + 1].type = "Trade"
                /\ outputs[i + 1].symbol = last_msg.symbol
                /\ outputs[i + 1].quantity = fills[i].quantity
          /\ IsTobTail(SubSeq(outputs, n + 2, Len(outputs)), last_msg.symbol)
    /\ last_msg.type = "Cancel" =>
          /\ Len(outputs) >= 1
          /\ outputs[1].type = "CancelAck"
          /\ outputs[1].user_id = last_msg.user_id
          /\ outputs[1].user_order_id = last_msg.user_order_id
          /\ IsTobTail(SubSeq(outputs, 2, Len(outputs)), outputs[1].symbol)

\* An add_order produced an Ack, a Trade and a TopOfBook of both sides
OutputShapeWitness ==
    /\ last_msg.type = "NewOrder"
    /\ fills # <<>>
    /\ Len(outputs) = Len(fills) + 3

\* ------------------------------------------------------------------------
\* Top of book over the orders that rest in a book
\* ------------------------------------------------------------------------
RestingPrices(levels) == {p \in DOMAIN levels : levels[p] # <<>>}

BestRestingPrice(levels, side) ==
    IF side = "Buy" THEN Max(RestingPrices(levels))
    ELSE Min(RestingPrices(levels))

\* (best price, total remaining quantity at it) of one side; (0, 0) when no
\* order rests there or the symbol has no book
RestingTob(books, symbol, side) ==
    IF symbol \notin DOMAIN books THEN <<0, 0>>
    ELSE LET lv == SideLevels(books[symbol], side) IN
         IF RestingPrices(lv) = {} THEN <<0, 0>>
         ELSE <<BestRestingPrice(lv, side),
                total_quantity_at_price(lv[BestRestingPrice(lv, side)])>>

\* The TopOfBook event that announces a top of book
TobEventOf(symbol, side, tob) ==
    IF tob[1] = 0 THEN top_of_book_eliminated(symbol, side)
    ELSE top_of_book(symbol, side, tob[1], tob[2])

RECURSIVE TradedQuantity(_)
TradedQuantity(outs) ==
    IF outs = <<>> THEN 0
    ELSE (IF Head(outs).type = "Trade" THEN Head(outs).quantity ELSE 0)
         + TradedQuantity(Tail(outs))

RECURSIVE RestingDepth(_)
RestingDepth(orders) ==
    IF orders = {} THEN 0
    ELSE LET o == CHOOSE x \in orders : TRUE
         IN  o.remaining_qty + RestingDepth(orders \ {o})

\* ------------------------------------------------------------------------
\* C2: after every completed add_order, cancel_order or flush no price key
\* of bids or asks is associated with an empty FIFO.
\* ------------------------------------------------------------------------
NoEmptyLevel ==
    \A s \in DOMAIN order_books :
        /\ \A p \in DOMAIN order_books[s].bids :
              order_books[s].bids[p] # <<>>
        /\ \A p \in DOMAIN order_books[s].asks :
              order_books[s].asks[p] # <<>>

\* ------------------------------------------------------------------------
\* C6: every TopOfBook event of add_order or cancel_order is eliminated
\* (price 0, quantity 0) exactly when its side holds no resting order after
\* the operation; otherwise it carries the best resting price of the side
\* and the strictly positive total remaining quantity at that price.
\* ------------------------------------------------------------------------
TobEventFaithful ==
    IsBookOp =>
        \A i \in 1..Len(outputs) :
            outputs[i].type = "TopOfBook" =>
                LET e == outputs[i]
                    tob == RestingTob(order_books, e.symbol, e.side)
                IN  /\ e.eliminated <=> (tob = <<0, 0>>)
                    /\ e.eliminated =>
                          (e.price = 0 /\ e.total_quantity = 0)
                    /\ ~e.eliminated =>
                          /\ e.price = tob[1]
                          /\ e.total_quantity = tob[2]
                          /\ e.total_quantity > 0

\* ------------------------------------------------------------------------
\* C7: cancelling a resting order that is the only order at the best price
\* of its side yields [CancelAck, TopOfBook], the TopOfBook carrying the
\* next-best price of the side and the total remaining quantity there, or
\* eliminated when the side has no other level.
\* ------------------------------------------------------------------------
\* The side cancel_order removes from: bids are tried before asks
CancelSide(book, key) ==
    IF \E o \in RestingOrders(book.bids) :
          <<o.user_id, o.user_order_id>> = key
    THEN "Buy" ELSE "Sell"

CancelSoleBestStep ==
    (last_msg'.type = "Cancel"
     /\ <<last_msg'.user_id, last_msg'.user_order_id>>
            \in DOMAIN order_to_symbol) =>
        LET key == <<last_msg'.user_id, last_msg'.user_order_id>>
            symbol == order_to_symbol[key]
        IN  symbol \in DOMAIN order_books =>
            LET book == order_books[symbol]
                side == CancelSide(book, key)
                lv == SideLevels(book, side)
                hits == {o \in RestingOrders(lv) :
                            <<o.user_id, o.user_order_id>> = key}
                after == [q \in RestingPrices(lv)
                              \ {BestRestingPrice(lv, side)} |-> lv[q]]
                next_tob == IF DOMAIN after = {} THEN <<0, 0>>
                            ELSE <<BestRestingPrice(after, side),
                                   total_quantity_at_price(
                                     after[BestRestingPrice(after, side)])>>
            IN  (/\ hits # {}
                 /\ \A o \in hits : o.price = BestRestingPrice(lv, side)
                 /\ Len(lv[BestRestingPrice(lv, side)]) = 1)
                => outputs' = <<cancel_ack(key[1], key[2], symbol),
                                TobEventOf(symbol, side, next_tob)>>

CancelSoleBest == [][CancelSoleBestStep]_vars

\* ------------------------------------------------------------------------
\* C8: add_order and cancel_order emit a TopOfBook event for a side if and
\* only if the side's (best price, total quantity at best price) after the
\* operation differs from its value before; an unchanged side has no event.
\* ------------------------------------------------------------------------
TobEventIffChangedStep ==
    last_msg'.type \in {"NewOrder", "Cancel"} =>
        \A symbol \in Symbols, side \in Sides :
            (TobIndexes(outputs', symbol, side) # {})
                <=> (RestingTob(order_books', symbol, side)
                        # RestingTob(order_books, symbol, side))

TobEventIffChanged == [][TobEventIffChangedStep]_vars

\* ------------------------------------------------------------------------
\* C9: for each symbol and side the cached previous top of book of the book
\* equals the (price, total_quantity) of the most recent TopOfBook event
\* add_order or cancel_order emitted for that symbol and side, or (0, 0) if
\* there was none.
\* ------------------------------------------------------------------------
CacheMatchesLog(log) ==
    \A s \in DOMAIN order_books :
        LET b == order_books[s] IN
        /\ <<b.prev_best_bid_price, b.prev_best_bid_qty>>
              = <<log[<<s, "Buy">>].price, log[<<s, "Buy">>].total_quantity>>
        /\ <<b.prev_best_ask_price, b.prev_best_ask_qty>>
              = <<log[<<s, "Sell">>].price,
                  log[<<s, "Sell">>].total_quantity>>

CacheEqualsLastTob == CacheMatchesLog(tob_log)

\* C9 as amended: the most recent TopOfBook event emitted for the symbol
\* and side since the most recent Flush, or (0, 0) if there was none since
\* then.
CacheEqualsLastTobSinceFlush == CacheMatchesLog(tob_log_flush)

\* A book caches an event emitted after a Flush that forgot an earlier one
CacheEqualsLastTobWitness ==
    /\ \E s \in DOMAIN order_books, side \in Sides :
          /\ tob_log_flush[<<s, side>>].seen
          /\ tob_log_flush[<<s, side>>].price # 0
    /\ \E k \in Symbols \X Sides :
          tob_log[k].seen /\ ~tob_log_flush[k].seen

\* ------------------------------------------------------------------------
\* C10: a market order (price 0) never rests: it trades all available
\* opposing depth up to its quantity, its residual is discarded, on an empty
\* opposing side its output is exactly [Ack], and no resting order ever has
\* price 0.
\* ------------------------------------------------------------------------
MarketNeverRestsStep ==
    /\ \A s \in DOMAIN order_books' :
          \A o \in RestingOrders(order_books'[s].bids)
                     \cup RestingOrders(order_books'[s].asks) :
              o.price # 0 /\ o.order_type = "Limit"
    /\ (last_msg'.type = "NewOrder" /\ last_msg'.price = 0) =>
          LET m == last_msg'
              pre == IF m.symbol \in DOMAIN order_books
                     THEN order_books[m.symbol] ELSE new_book(m.symbol)
              post == order_books'[m.symbol]
              opposing == RestingOrders(OppositeLevels(pre, m.side))
              depth == RestingDepth(opposing)
          IN  /\ RestingOrders(SideLevels(post, m.side))
                    = RestingOrders(SideLevels(pre, m.side))
              /\ TradedQuantity(outputs')
                    = (IF m.quantity < depth THEN m.quantity ELSE depth)
              /\ opposing = {} =>
                    outputs' = <<ack(m.user_id, m.user_order_id, m.symbol)>>

MarketNeverRests == [][MarketNeverRestsStep]_vars

\* ------------------------------------------------------------------------
\* C11: a Limit order whose price does not cross the opposite best (Buy
\* price below the best ask, Sell price above the best bid, or no order
\* rests opposite) produces no Trade and rests with its full quantity at the
\* tail of the FIFO of its price level, behind the orders already there.
\* ------------------------------------------------------------------------
OppositeSide(side) == IF side = "Buy" THEN "Sell" ELSE "Buy"

DoesNotCross(books, m) ==
    LET opp == RestingTob(books, m.symbol, OppositeSide(m.side)) IN
    \/ opp[1] = 0
    \/ (m.side = "Buy" /\ m.price < opp[1])
    \/ (m.side = "Sell" /\ m.price > opp[1])

\* The FIFO of a price in one side of a book; empty when the price has no
\* level
LevelAt(books, symbol, side, price) ==
    IF symbol \notin DOMAIN books THEN <<>>
    ELSE LET lv == SideLevels(books[symbol], side) IN
         IF price \in DOMAIN lv THEN lv[price] ELSE <<>>

NonCrossingLimitRestsStep ==
    (/\ last_msg'.type = "NewOrder"
     /\ last_msg'.price > 0
     /\ DoesNotCross(order_books, last_msg')) =>
        LET m == last_msg'
            before == LevelAt(order_books, m.symbol, m.side, m.price)
            after == LevelAt(order_books', m.symbol, m.side, m.price)
        IN  /\ TradeIndexes(outputs') = {}
            /\ Len(after) = Len(before) + 1
            /\ SubSeq(after, 1, Len(before)) = before
            /\ after[Len(after)].user_id = m.user_id
            /\ after[Len(after)].user_order_id = m.user_order_id
            /\ after[Len(after)].side = m.side
            /\ after[Len(after)].price = m.price
            /\ after[Len(after)].quantity = m.quantity
            /\ after[Len(after)].remaining_qty = m.quantity
            /\ RestingOrders(OppositeLevels(order_books'[m.symbol], m.side))
                  = RestingOrders(OppositeLevels(
                      IF m.symbol \in DOMAIN order_books
                      THEN order_books[m.symbol] ELSE new_book(m.symbol),
                      m.side))

NonCrossingLimitRests == [][NonCrossingLimitRestsStep]_vars

\* A Limit order that does not cross rested behind an earlier order of its
\* price level while orders rest on the opposite side
NonCrossingLimitRestsWitness ==
    /\ last_msg.type = "NewOrder"
    /\ last_msg.price > 0
    /\ fills = <<>>
    /\ LET lv == LevelAt(order_books, last_msg.symbol, last_msg.side,
                         last_msg.price)
       IN  /\ Len(lv) >= 2
           /\ lv[Len(lv)].timestamp_ns = clock - 1
           /\ lv[Len(lv)].remaining_qty = last_msg.quantity
    /\ RestingOrders(OppositeLevels(order_books[last_msg.symbol],
                                    last_msg.side)) # {}

\* ------------------------------------------------------------------------
\* C12: after any sequence of messages, for every order resting in any book
\* the index order_to_symbol has an entry for the order's (user_id,
\* user_order_id) whose value is the symbol of that book.
\* ------------------------------------------------------------------------
BookOrders(book) == RestingOrders(book.bids) \cup RestingOrders(book.asks)

OrderKey(o) == <<o.user_id, o.user_order_id>>

IndexCoversResting ==
    \A s \in DOMAIN order_books :
        \A o \in BookOrders(order_books[s]) :
            /\ OrderKey(o) \in DOMAIN order_to_symbol
            /\ order_to_symbol[OrderKey(o)] = s

\* ------------------------------------------------------------------------
\* C13: a Cancel whose (user_id, user_order_id) has no entry in the index
\* produces exactly one output, the CancelAck of the key with the symbol
\* "<unknown>", and leaves every book and the index unchanged.
\* ------------------------------------------------------------------------
CancelKey(m) == <<m.user_id, m.user_order_id>>

CancelUnknownStep ==
    (/\ last_msg'.type = "Cancel"
     /\ CancelKey(last_msg') \notin DOMAIN order_to_symbol) =>
        /\ outputs' = <<cancel_ack(last_msg'.user_id,
                                   last_msg'.user_order_id, "<unknown>")>>
        /\ order_books' = order_books
        /\ order_to_symbol' = order_to_symbol

CancelUnknown == [][CancelUnknownStep]_vars

\* A Cancel of a key the index does not hold was answered while an order
\* rests in a book and the index holds other keys
CancelUnknownWitness ==
    /\ last_msg.type = "Cancel"
    /\ outputs = <<cancel_ack(last_msg.user_id, last_msg.user_order_id,
                              "<unknown>")>>
    /\ DOMAIN order_to_symbol # {}
    /\ \E s \in DOMAIN order_books : BookOrders(order_books[s]) # {}

\* ------------------------------------------------------------------------
\* C14: a Cancel of a (user_id, user_order_id) that names no resting order
\* produces a CancelAck and leaves the engine state (all books with their
\* TOB caches, and the index) equal to the state before it, however often
\* it is repeated.
\* ------------------------------------------------------------------------
NamesNoRestingOrder(books, key) ==
    \A s \in DOMAIN books :
        \A o \in BookOrders(books[s]) : OrderKey(o) # key

IsCancelAckOf(outs, m) ==
    /\ Len(outs) = 1
    /\ outs[1].type = "CancelAck"
    /\ outs[1].user_id = m.user_id
    /\ outs[1].user_order_id = m.user_order_id

CancelAbsentLeavesStateStep ==
    (/\ last_msg'.type = "Cancel"
     /\ NamesNoRestingOrder(order_books, CancelKey(last_msg'))) =>
        /\ IsCancelAckOf(outputs', last_msg')
        /\ order_books' = order_books
        /\ order_to_symbol' = order_to_symbol

CancelAbsentLeavesState == [][CancelAbsentLeavesStateStep]_vars

\* C14 as amended: the first such Cancel leaves all books and TOB caches
\* unchanged and removes the index entry of the key, if the index still
\* holds one; every further Cancel of the key leaves the whole state
\* unchanged.  Each Cancel produces exactly one CancelAck.
CancelAbsentIdempotentStep ==
    (/\ last_msg'.type = "Cancel"
     /\ NamesNoRestingOrder(order_books, CancelKey(last_msg'))) =>
        /\ IsCancelAckOf(outputs', last_msg')
        /\ order_books' = order_books
        /\ order_to_symbol'
              = MapRemove(order_to_symbol, CancelKey(last_msg'))
        /\ LET again == process_cancel(order_books', order_to_symbol',
                                       last_msg')
           IN  /\ again.outs = <<cancel_ack(last_msg'.user_id,
                                            last_msg'.user_order_id,
                                            "<unknown>")>>
               /\ again.books = order_books'
               /\ again.index = order_to_symbol'

CancelAbsentIdempotent == [][CancelAbsentIdempotentStep]_vars

\* A Cancel removed the index entry of an order that no longer rests, while
\* an order rests in the book of another symbol
CancelAbsentIdempotentWitness ==
    /\ last_msg.type = "Cancel"
    /\ IsCancelAckOf(outputs, last_msg)
    /\ outputs[1].symbol \in DOMAIN order_books
    /\ BookOrders(order_books[outputs[1].symbol]) = {}
    /\ CancelKey(last_msg) \notin DOMAIN order_to_symbol
    /\ \E s \in DOMAIN order_books : BookOrders(order_books[s]) # {}

\* ------------------------------------------------------------------------
\* C15: Flush emits no output and returns the engine to the state of a
\* fresh MatchingEngine (no books, empty index); a second Flush changes
\* nothing, and the message processed after a Flush has the outputs and the
\* effect it has on a fresh engine.
\* ------------------------------------------------------------------------
FlushResetsStep ==
    /\ last_msg'.type = "Flush" =>
          /\ outputs' = <<>>
          /\ order_books' = new_engine.books
          /\ order_to_symbol' = new_engine.index
          /\ LET again == process_flush(order_books', order_to_symbol')
             IN  /\ again.outs = <<>>
                 /\ again.books = order_books'
                 /\ again.index = order_to_symbol'
    /\ (last_msg.type = "Flush" /\ last_msg'.type # "None") =>
          LET fresh == process_message(new_engine.books, new_engine.index,
                                       last_msg', clock)
          IN  /\ outputs' = fresh.outs
              /\ order_books' = fresh.books
              /\ order_to_symbol' = fresh.index

FlushResets == [][FlushResetsStep]_vars

\* A Flush emptied an engine whose books had emitted TopOfBook events and
\* whose index held entries
FlushResetsWitness ==
    /\ last_msg.type = "Flush"
    /\ clock >= 1
    /\ \E k \in Symbols \X Sides : tob_log[k].seen /\ tob_log[k].price # 0
    /\ order_books = EmptyMap
    /\ order_to_symbol = EmptyMap

\* ------------------------------------------------------------------------
\* C16: QueryTopOfBook returns exactly two TopOfBook events of the symbol,
\* Bid then Ask; each is eliminated exactly when its side of the symbol's
\* book holds no resting order (or the symbol has no book), and otherwise
\* carries the best price of the side and the total remaining quantity at
\* that price.
\* ------------------------------------------------------------------------
QuerySnapshotFaithful ==
    last_msg.type = "QueryTopOfBook" =>
        outputs = <<TobEventOf(last_msg.symbol, "Buy",
                               RestingTob(order_books, last_msg.symbol,
                                          "Buy")),
                    TobEventOf(last_msg.symbol, "Sell",
                               RestingTob(order_books, last_msg.symbol,
                                          "Sell"))>>

\* ------------------------------------------------------------------------
\* C17: QueryTopOfBook changes no book, no TOB cache and no index entry and
\* creates no book for an unknown symbol, so that every later message meets
\* the state it would meet had the query not been issued.
\* ------------------------------------------------------------------------
QueryChangesNothingStep ==
    last_msg'.type = "QueryTopOfBook" =>
        /\ order_books' = order_books
        /\ order_to_symbol' = order_to_symbol
        /\ DOMAIN order_books' = DOMAIN order_books
        /\ \A m \in {[type |-> "QueryTopOfBook", symbol |-> s] :
                        s \in Symbols}
                    \cup {[type |-> "Cancel", user_id |-> u,
                           user_order_id |-> i] :
                             u \in UserIds, i \in UserOrderIds} :
              process_message(order_books', order_to_symbol', m, clock)
                  = process_message(order_books, order_to_symbol, m, clock)

QueryChangesNothing == [][QueryChangesNothingStep]_vars

\* A symbol without a book was queried while the book of another symbol
\* holds resting orders: both events are eliminated and no book was made
QueryChangesNothingWitness ==
    /\ last_msg.type = "QueryTopOfBook"
    /\ last_msg.symbol \notin DOMAIN order_books
    /\ Len(outputs) = 2
    /\ outputs[1].eliminated /\ outputs[2].eliminated
    /\ \E s \in DOMAIN order_books : BookOrders(order_books[s]) # {}

\* ------------------------------------------------------------------------
\* C18: binary codec round trip.  For every InputMessage m with a symbol of
\* 1..32 bytes and, for a NewOrder, quantity > 0,
\* decode_input(encode_input(m)) = m; for every OutputMessage o with a
\* symbol of 1..32 bytes, decode_output(encode_output(o)) = o.
\* ------------------------------------------------------------------------
SymbolLen(symbol) == Len(as_bytes(symbol))

WellFormedInput(m) ==
    /\ m.type \in {"NewOrder", "Cancel", "Flush", "QueryTopOfBook"}
    /\ m.type \in {"NewOrder", "QueryTopOfBook"} =>
          validate_symbol_len(SymbolLen(m.symbol))
    /\ m.type = "NewOrder" => m.quantity > 0

WellFormedOutput(o) ==
    /\ o.type \in {"Ack", "CancelAck", "Trade", "TopOfBook"}
    /\ validate_symbol_len(SymbolLen(o.symbol))

CodecRoundTrip ==
    (WellFormedInput(sent) \/ WellFormedOutput(sent)) => parsed = Ok(sent)

\* A NewOrder with a symbol of 32 bytes and a quantity that fills the upper
\* bytes of its field came back from its 54-byte frame
CodecRoundTripWitness ==
    /\ sent.type = "NewOrder"
    /\ sent.symbol = Sym32
    /\ sent.quantity = BigU32
    /\ sent.user_order_id = 258
    /\ Len(wire) = 22 + MAX_SYMBOL_LEN
    /\ parsed.ok
    /\ parsed.msg = sent

\* ------------------------------------------------------------------------
\* C19: a NewOrder with quantity 0 that arrives at the binary or the CSV
\* front-end is rejected before dispatch: no InputMessage is produced, the
\* engine state is unchanged and no output is emitted.
\* ------------------------------------------------------------------------
\* The tokens of a CSV line
TokensOf(line) == split_and_trim(trim(line), ",")

IsCsvRecord(tokens, letter, count) ==
    /\ Len(tokens) = count
    /\ tokens[1] # <<>>
    /\ Head(tokens[1]) = letter

IsBinaryRecord(frame, type_byte, min_len) ==
    Len(frame) >= min_len /\ at(frame, 0) = type_byte

IsZeroQuantityCsv(tokens) ==
    /\ IsCsvRecord(tokens, "N", 7)
    /\ parse_u32(tokens[5]) = [ok |-> TRUE, value |-> 0]

IsZeroQuantityNewOrder(p, w) ==
    \/ /\ p = "Binary"
       /\ IsBinaryRecord(w, 0, 20)
       /\ read_u32_be(slice(w, 16, 20)) = 0
    \/ /\ p = "Csv"
       /\ IsZeroQuantityCsv(TokensOf(w))

ZeroQuantityRejectedStep ==
    IsZeroQuantityNewOrder(protocol', wire') =>
        /\ ~parsed'.ok
        /\ last_msg'.type = "None"
        /\ order_books' = order_books
        /\ order_to_symbol' = order_to_symbol
        /\ outputs' = <<>>

ZeroQuantityRejected == [][ZeroQuantityRejectedStep]_vars

\* A binary NewOrder frame whose only fault is quantity 0 was dropped while
\* an order rests in a book
ZeroQuantityRejectedWitness ==
    /\ protocol = "Binary"
    /\ IsZeroQuantityNewOrder(protocol, wire)
    /\ parsed = InvalidField("quantity")
    /\ outputs = <<>>
    /\ \E s \in DOMAIN order_books : BookOrders(order_books[s]) # {}

\* ------------------------------------------------------------------------
\* C20: at the CSV and at the binary front-end a NewOrder or QueryTopOfBook
\* whose symbol has length 0 or more than 32 bytes, and a NewOrder whose
\* side is neither Buy nor Sell, is rejected at parse time, so that no book
\* ever exists for a symbol of length 0 or more than 32.
\* ------------------------------------------------------------------------
HasBadSymbolOrSideCsv(tokens) ==
    \/ /\ IsCsvRecord(tokens, "N", 7)
       /\ \/ tokens[6] \notin {<<"B">>, <<"S">>}
          \/ ~validate_symbol_len(Len(tokens[3]))
    \/ /\ IsCsvRecord(tokens, "Q", 2)
       /\ ~validate_symbol_len(Len(tokens[2]))

HasBadSymbolOrSide(p, w) ==
    \/ /\ p = "Binary"
       /\ \/ /\ IsBinaryRecord(w, 0, 22)
             /\ \/ at(w, 20) \notin {0, 1}
                \/ ~validate_symbol_len(at(w, 21))
          \/ /\ IsBinaryRecord(w, 3, 5)
             /\ ~validate_symbol_len(at(w, 4))
    \/ /\ p = "Csv"
       /\ HasBadSymbolOrSideCsv(TokensOf(w))

BadSymbolOrSideRejected ==
    /\ HasBadSymbolOrSide(protocol, wire) => ~parsed.ok
    /\ \A s \in DOMAIN order_books : validate_symbol_len(SymbolLen(s))

\* ------------------------------------------------------------------------
\* C21: decode_input and decode_output answer Truncated to a buffer of
\* fewer than 4 bytes, VersionMismatch to a buffer of at least 4 bytes whose
\* version byte is not PROTOCOL_VERSION, whatever its type byte and body,
\* and UnknownMessageType to a valid version with an unlisted type byte.
\* ------------------------------------------------------------------------
\* The type bytes of WireInputType and WireOutputType
ListedTypeBytes(d) ==
    IF d = "decode_input" THEN {0, 1, 2, 3} ELSE {10, 11, 12, 13}

IsRawDecode == sent.type = "None" /\ decoder \in {"decode_input", "decode_output"}

HeaderErrors ==
    IsRawDecode =>
        IF Len(wire) < 4 THEN parsed = Truncated
        ELSE IF wire[2] # PROTOCOL_VERSION
             THEN parsed = VersionMismatch(wire[2])
        ELSE wire[1] \notin ListedTypeBytes(decoder)
             => parsed = UnknownMessageType(wire[1])

\* a wrong version under an unlisted type byte, with no body at all
HeaderErrorsWitness ==
    /\ IsRawDecode
    /\ Len(wire) = 4
    /\ wire[2] # PROTOCOL_VERSION
    /\ wire[1] \notin ListedTypeBytes(decoder)
    /\ parsed = VersionMismatch(wire[2])

\* ------------------------------------------------------------------------
\* C22: for every sequence of inputs accepted at the protocol boundary, the
\* sum of remaining_qty over the orders resting at one price level never
\* exceeds the u32 range.
\* ------------------------------------------------------------------------
LevelOrders(level) == {level[i] : i \in 1..Len(level)}

LevelTotalsFitU32 ==
    \A s \in DOMAIN order_books : \A side \in Sides :
        \A p \in DOMAIN SideLevels(order_books[s], side) :
            RestingDepth(LevelOrders(SideLevels(order_books[s], side)[p]))
                <= U32_MAX

\* ------------------------------------------------------------------------
\* C25: every frame a client writes is a 4-byte big-endian length equal to
\* the payload byte count followed by the payload, so that run_binary_reader
\* reads the payload the client encoded.
\* ------------------------------------------------------------------------
\* The frame run_binary_reader takes from the head of the stream
ReaderFrameLen == read_u32_be(SubSeq(wire, 1, 4))

SameFraming ==
    wire # <<>> =>
        /\ Len(wire) >= 4
        /\ ReaderFrameLen = Len(wire) - 4
        /\ SubSeq(wire, 5, 4 + ReaderFrameLen) = encode_input(sent, <<>>).out

\* ------------------------------------------------------------------------
\* C23: the engine task processes the requests one at a time in the order
\* they arrived on its queue, and in every client's outbound queue all
\* outputs of request m precede all outputs of request m+1 while the outputs
\* of one request keep their order.
\* ------------------------------------------------------------------------
\* The requests are numbered as they arrive: the engine task has taken
\* numbers 1..Len(log) in this order, and is at work on the last of them
ProcessedInArrivalOrder ==
    /\ \A k \in 1..Len(engine_task.log) : engine_task.log[k].req = k
    /\ engine_task.pc # "recv" =>
         engine_task.req = Len(engine_task.log)
                           + (IF engine_task.pc = "lock" THEN 1 ELSE 0)
    /\ \A k \in 1..Len(engine_rx) :
         engine_rx[k].seq > Len(engine_task.log)
         /\ (k > 1 => engine_rx[k - 1].seq < engine_rx[k].seq)

EmissionOrder(queue) ==
    \A i, j \in 1..Len(queue) :
        i < j => \/ queue[i].req < queue[j].req
                 \/ queue[i].req = queue[j].req /\ queue[i].idx < queue[j].idx

DeliveryInEmissionOrder ==
    /\ ProcessedInArrivalOrder
    /\ \A c \in ClientIds : EmissionOrder(outbound[c])

\* two clients are connected, two requests have been processed and a writer
\* task has written the outputs of both
DeliveryInEmissionOrderWitness ==
    /\ Len(engine_task.log) = 2
    /\ engine_task.pc = "recv"
    /\ \E c \in ClientIds :
        /\ Len(outbound[c]) >= 4
        /\ outbound[c][1].req = 1
        /\ outbound[c][Len(outbound[c])].req = 2
    /\ \E c \in ClientIds : tasks[c].taken >= 4
    /\ \A c \in ClientIds : tasks[c].reader # "none"

\* ------------------------------------------------------------------------
\* C24: every output of every processed request goes to all clients
\* registered at broadcast time; registration and unregistration cannot
\* interleave with one request's fan-out, so a client gets all outputs of a
\* request or none of them, never a strict subset.
\* ------------------------------------------------------------------------
\* The log entries of the requests whose fan-out is over
CompletedBroadcasts ==
    {engine_task.log[k] :
        k \in 1..(Len(engine_task.log)
                  - (IF engine_task.pc = "fanout" THEN 1 ELSE 0))}

\* The output indexes of request req accepted by the channel of client c
ReceivedOf(c, req) ==
    {outbound[c][i].idx :
        i \in {j \in 1..Len(outbound[c]) : outbound[c][j].req = req}}

BroadcastAllOrNone ==
    \A b \in CompletedBroadcasts : \A c \in ClientIds :
        ReceivedOf(c, b.req) = IF c \in b.to THEN 1..b.n ELSE {}

\* As amended: a registered client whose writer task still runs has got
\* every output, a client that was not registered none, and a registered
\* client whose writer task has ended the outputs sent before its channel
\* closed
BroadcastToOpenChannels ==
    \A b \in CompletedBroadcasts : \A c \in ClientIds :
        /\ c \notin b.to => ReceivedOf(c, b.req) = {}
        /\ c \in b.to /\ tasks[c].writer = "running"
             => ReceivedOf(c, b.req) = 1..b.n
        /\ \E k \in 0..b.n : ReceivedOf(c, b.req) = 1..k

\* a request with two outputs was broadcast to two registered clients: one
\* has got both outputs, the writer task of the other ended after the first
BroadcastToOpenChannelsWitness ==
    /\ engine_task.pc = "recv"
    /\ \E b \in CompletedBroadcasts :
        /\ b.n >= 2
        /\ b.to = ClientIds
        /\ \E c \in b.to :
            tasks[c].writer = "running" /\ ReceivedOf(c, b.req) = 1..b.n
        /\ \E c \in b.to :
            tasks[c].writer = "ended" /\ ReceivedOf(c, b.req) = {1}

\* ------------------------------------------------------------------------
\* C26: every order resting in bids has side Buy, every order resting in
\* asks has side Sell, and each resting order has the price of the level
\* that holds it, is a Limit with price > 0 and has remaining_qty > 0.
\* ------------------------------------------------------------------------
WellFormedResting(o, side, level_price) ==
    /\ o.side = side
    /\ o.price = level_price
    /\ o.order_type = "Limit"
    /\ o.price > 0
    /\ o.remaining_qty > 0
    /\ o.remaining_qty <= o.quantity

RestingOrdersWellFormed ==
    \A s \in DOMAIN order_books : \A side \in Sides :
        \A p \in DOMAIN SideLevels(order_books[s], side) :
            \A o \in LevelOrders(SideLevels(order_books[s], side)[p]) :
                WellFormedResting(o, side, p)

\* an add_order filled one resting order whole, which left the book, and
\* another in part, which stays with what remains of it
RestingOrdersWellFormedWitness ==
    /\ last_msg.type = "NewOrder"
    /\ Len(fills) = 2
    /\ fills[1].passive.remaining_qty = fills[1].quantity
    /\ fills[2].passive.remaining_qty > fills[2].quantity
    /\ \E o \in BookOrders(order_books[last_msg.symbol]) :
        /\ OrderKey(o) = OrderKey(fills[2].passive)
        /\ o.remaining_qty = fills[2].passive.remaining_qty
                             - fills[2].quantity
    /\ \A o \in BookOrders(order_books[last_msg.symbol]) :
        o.timestamp_ns # fills[1].passive.timestamp_ns

\* ------------------------------------------------------------------------
\* C27: the index entry of an order that matching filled whole remains; the
\* first Cancel of such a stale entry is routed to the book of the entry
\* and yields exactly one CancelAck with the symbol of the order, no
\* TopOfBook and no book change, and removes the entry; a second Cancel of
\* the key yields a CancelAck with symbol "<unknown>".
\* ------------------------------------------------------------------------
\* The orders the add_order of this step filled whole: resting orders, and
\* the incoming order if nothing remains of it
FilledWhole(fs) ==
    {fs[i].passive : i \in {j \in 1..Len(fs) :
                              fs[j].passive.remaining_qty = fs[j].quantity}}
    \cup {fill(fs[i].incoming, fs[i].quantity) :
            i \in {j \in 1..Len(fs) :
                     fs[j].incoming.remaining_qty = fs[j].quantity}}

\* The index has an entry for the key and no order of the book it names
\* bears the key
IsStaleEntry(books, index, key) ==
    /\ key \in DOMAIN index
    /\ index[key] \in DOMAIN books
    /\ \A o \in BookOrders(books[index[key]]) : OrderKey(o) # key

\* What two Cancels of a stale entry do, one after the other
StaleEntryCancelledTwice(books, index, key) ==
    LET msg == CancelMsg(key[1], key[2])
        first == process_cancel(books, index, msg)
        second == process_cancel(first.books, first.index, msg)
    IN  /\ first.outs = <<cancel_ack(key[1], key[2], index[key])>>
        /\ first.books = books
        /\ first.index = MapRemove(index, key)
        /\ second.outs = <<cancel_ack(key[1], key[2], "<unknown>")>>
        /\ second.books = books
        /\ second.index = first.index

StaleEntryStep ==
    /\ last_msg'.type = "NewOrder" =>
         \A o \in FilledWhole(fills') :
            /\ OrderKey(o) \in DOMAIN order_to_symbol
                 => OrderKey(o) \in DOMAIN order_to_symbol'
            /\ OrderKey(o) = OrderKey(last_msg')
                 => /\ OrderKey(o) \in DOMAIN order_to_symbol'
                    /\ order_to_symbol'[OrderKey(o)] = last_msg'.symbol
            /\ IsStaleEntry(order_books', order_to_symbol', OrderKey(o))
                 => StaleEntryCancelledTwice(order_books', order_to_symbol',
                                             OrderKey(o))
    /\ (/\ last_msg'.type = "Cancel"
        /\ IsStaleEntry(order_books, order_to_symbol, CancelKey(last_msg')))
         => /\ outputs' = <<cancel_ack(last_msg'.user_id,
                                       last_msg'.user_order_id,
                                       order_to_symbol[CancelKey(last_msg')])>>
            /\ order_books' = order_books
            /\ order_to_symbol'
                 = MapRemove(order_to_symbol, CancelKey(last_msg'))

RestingUnder(books, key) ==
    UNION {{o \in BookOrders(books[s]) : OrderKey(o) = key} :
           s \in DOMAIN books}

AllResting(books) == UNION {BookOrders(books[s]) : s \in DOMAIN books}

CancelRemovesOneStep ==
    /\ (/\ last_msg'.type = "Cancel"
        /\ RestingUnder(order_books, CancelKey(last_msg')) # {}) =>
           /\ outputs'[1].type = "CancelAck"
           /\ CancelKey(outputs'[1]) = CancelKey(last_msg')
           /\ Cardinality(RestingUnder(order_books, CancelKey(last_msg'))) = 1
           /\ AllResting(order_books') =
                 AllResting(order_books)
                    \ RestingUnder(order_books, CancelKey(last_msg'))
           /\ RestingUnder(order_books', CancelKey(last_msg')) = {}
    /\ \A k \in UniqueKeys :
           ledger[k].cancelled =>
               /\ RestingUnder(order_books', k) = {}
               /\ outputs' # outputs => TradedWith(outputs', k) = 0
               /\ last_msg'.type = "NewOrder" => TradedWith(outputs', k) = 0

CancelRemovesOne == [][CancelRemovesOneStep]_vars

\* an order was cancelled while it rested, a later order traded and an
\* order still rests
CancelRemovesOneWitness ==
    /\ \E k \in UniqueKeys : ledger[k].cancelled
    /\ last_msg.type = "NewOrder"
    /\ TradeIndexes(outputs) # {}
    /\ AllResting(order_books) # {}

\* ------------------------------------------------------------------------
\* C29: with unique order ids quantity is conserved.  For every order,
\* quantity = remaining_qty + the quantities of the Trade messages that name
\* it, and 0 <= remaining_qty <= quantity; the Trades of one add_order call
\* sum to at most the quantity of the incoming order.
\* ------------------------------------------------------------------------
QuantityConserved ==
    /\ \A k \in UniqueKeys :
        /\ ledger[k].traded <= ledger[k].quantity
        /\ \A o \in RestingUnder(order_books, k) :
            /\ o.quantity = ledger[k].quantity
            /\ o.quantity = o.remaining_qty + ledger[k].traded
            /\ 0 <= o.remaining_qty
            /\ o.remaining_qty <= o.quantity
    /\ last_msg.type = "NewOrder" =>
        /\ TradedQuantity(outputs) <= last_msg.quantity
        /\ TradedQuantity(outputs) = ledger[CancelKey(last_msg)].traded
        /\ (/\ last_msg.price > 0
            /\ TradedQuantity(outputs) < last_msg.quantity) =>
               \E o \in RestingUnder(order_books, CancelKey(last_msg)) :
                   o.remaining_qty
                       = last_msg.quantity - TradedQuantity(outputs)

\* an order was filled over two steps, and the order that filled it last
\* rests with what its Trade left of it
QuantityConservedWitness ==
    /\ last_msg.type = "NewOrder"
    /\ \E k \in UniqueKeys \ {CancelKey(last_msg)} :
        /\ TradedWith(outputs, k) > 0
        /\ ledger[k].traded > TradedWith(outputs, k)
        /\ ledger[k].traded = ledger[k].quantity
    /\ \E o \in RestingUnder(order_books, CancelKey(last_msg)) :
        /\ o.remaining_qty > 0
        /\ o.remaining_qty < o.quantity

\* ------------------------------------------------------------------------
\* C30: every Trade's quantity is the minimum of the incoming order's
\* remaining quantity and the passive order's remaining quantity just before
\* the fill, and is greater than zero, also in a book that cancels have
\* changed.
\* ------------------------------------------------------------------------
\* What is left of the incoming order of msg before the i-th Trade of outs,
\* which follows the Ack
IncomingRemaining(msg, outs, i) ==
    msg.quantity - TradedQuantity(SubSeq(outs, 2, i))

TradeQuantityIsMinStep ==
    last_msg'.type = "NewOrder" =>
        /\ Cardinality(TradeIndexes(outputs')) = Len(fills')
        /\ \A i \in 1..Len(fills') :
            LET t == outputs'[i + 1]
                passive == fills'[i].passive
                left == IncomingRemaining(last_msg', outputs', i)
            IN  /\ t.type = "Trade"
                /\ last_msg'.symbol \in DOMAIN order_books
                /\ passive \in BookOrders(order_books[last_msg'.symbol])
                /\ OrderKey(passive)
                       \in {<<t.user_id_buy, t.user_order_id_buy>>,
                            <<t.user_id_sell, t.user_order_id_sell>>}
                /\ fills'[i].incoming.remaining_qty = left
                /\ t.quantity = IF left < passive.remaining_qty
                                THEN left ELSE passive.remaining_qty
                /\ t.quantity > 0

TradeQuantityIsMin == [][TradeQuantityIsMinStep]_vars

\* an order traded with a part of a resting order, in a book where a Cancel
\* had emptied a level
TradeQuantityIsMinWitness ==
    /\ last_msg.type = "NewOrder"
    /\ Len(fills) >= 1
    /\ \E p \in DOMAIN fills[1].opposing : fills[1].opposing[p] = <<>>
    /\ fills[Len(fills)].passive.remaining_qty > fills[Len(fills)].quantity

\* ------------------------------------------------------------------------
\* C31: every Trade pairs one Buy order with one Sell order of the same
\* book: its buy fields are those of the Buy-side order and its sell fields
\* those of the Sell-side order, whichever of the two was the incoming one,
\* and its symbol is the symbol of the book.
\* ------------------------------------------------------------------------
\* The order of a fill that is on side
FillOrderOn(f, side) == IF f.incoming.side = side THEN f.incoming ELSE f.passive

TradePairsBuyWithSellStep ==
    last_msg'.type = "NewOrder" =>
        \A i \in 1..Len(fills') :
            LET t == outputs'[i + 1]
                f == fills'[i]
                book == order_books[last_msg'.symbol]
            IN  /\ t.type = "Trade"
                /\ last_msg'.symbol \in DOMAIN order_books
                /\ OrderKey(f.incoming) = CancelKey(last_msg')
                /\ f.incoming.side = last_msg'.side
                /\ f.passive \in RestingOrders(OppositeLevels(book,
                                                              last_msg'.side))
                /\ FillOrderOn(f, "Buy").side = "Buy"
                /\ FillOrderOn(f, "Sell").side = "Sell"
                /\ FillOrderOn(f, "Buy") # FillOrderOn(f, "Sell")
                /\ t.user_id_buy = FillOrderOn(f, "Buy").user_id
                /\ t.user_order_id_buy = FillOrderOn(f, "Buy").user_order_id
                /\ t.user_id_sell = FillOrderOn(f, "Sell").user_id
                /\ t.user_order_id_sell = FillOrderOn(f, "Sell").user_order_id
                /\ t.symbol = book.symbol
                /\ t.symbol = last_msg'.symbol
                /\ f.passive.symbol = t.symbol

TradePairsBuyWithSell == [][TradePairsBuyWithSellStep]_vars

\* an incoming Sell order traded with the resting Buy order of another user
TradePairsBuyWithSellWitness ==
    /\ last_msg.type = "NewOrder"
    /\ last_msg.side = "Sell"
    /\ Len(fills) >= 1
    /\ outputs[2].type = "Trade"
    /\ outputs[2].user_id_buy # outputs[2].user_id_sell
    /\ outputs[2].user_id_sell = last_msg.user_id

\* ------------------------------------------------------------------------
\* C32: the binary decoders return InvalidSymbol only when the symbol length
\* byte is 0 or greater than 32 or the symbol bytes are not valid UTF-8; a
\* buffer that ends before the fields announced by its type and symbol
\* length returns Truncated, for every message type.
\* ------------------------------------------------------------------------
\* The type bytes of the messages that carry a symbol, and the 0-based
\* offset of their symbol length byte
SymbolTypeBytes == {0, 3, 10, 11, 12, 13}

SymbolLenOffset(type_byte) ==
    CASE type_byte = 0 -> 21
      [] type_byte \in {10, 11} -> 12
      [] OTHER -> 4

HasLenByte(buf) ==
    /\ buf[1] \in SymbolTypeBytes
    /\ Len(buf) > SymbolLenOffset(buf[1])

\* The symbol length the buffer announces, 0 when it ends before that byte
AnnouncedSymbolLen(buf) ==
    IF HasLenByte(buf) THEN at(buf, SymbolLenOffset(buf[1])) ELSE 0

\* The length of the whole message that the type byte and the symbol
\* length announce
AnnouncedLen(buf) ==
    CASE buf[1] = 0 -> 22 + AnnouncedSymbolLen(buf)
      [] buf[1] = 1 -> 12
      [] buf[1] = 2 -> 4
      [] buf[1] = 3 -> 5 + AnnouncedSymbolLen(buf)
      [] buf[1] \in {10, 11} -> 13 + AnnouncedSymbolLen(buf)
      [] buf[1] = 12 -> 5 + AnnouncedSymbolLen(buf) + 4 * 6
      [] buf[1] = 13 -> 5 + AnnouncedSymbolLen(buf) + 1 + 1 + 4 + 4

BadSymbolLen(buf) ==
    HasLenByte(buf) /\ ~validate_symbol_len(AnnouncedSymbolLen(buf))

BadSymbolBytes(buf) ==
    LET from == SymbolLenOffset(buf[1]) + 1 IN
    /\ HasLenByte(buf)
    /\ Len(buf) >= from + AnnouncedSymbolLen(buf)
    /\ ~from_utf8(slice(buf, from, from + AnnouncedSymbolLen(buf))).ok

SymbolErrors ==
    (/\ IsRawDecode
     /\ Len(wire) >= 4
     /\ wire[2] = PROTOCOL_VERSION
     /\ wire[1] \in ListedTypeBytes(decoder)) =>
        /\ parsed = InvalidSymbol =>
               BadSymbolLen(wire) \/ BadSymbolBytes(wire)
        /\ (~BadSymbolLen(wire) /\ Len(wire) < AnnouncedLen(wire)) =>
               parsed = Truncated

\* ------------------------------------------------------------------------
\* C33: encode_input and encode_output fail only when the symbol of the
\* message is empty or longer than 32 bytes: Cancel and Flush never fail and
\* any u32 field value is encoded, NewOrder quantity 0 included.  An encoder
\* that fails appends no byte to the output buffer.
\* ------------------------------------------------------------------------
IsEncode(d) == d \in {"encode_input", "encode_output"}

\* The message has a symbol, which is empty or longer than MAX_SYMBOL_LEN
HasUnencodableSymbol(m) ==
    /\ m.type \notin {"Cancel", "Flush"}
    /\ \/ Len(as_bytes(m.symbol)) = 0
       \/ Len(as_bytes(m.symbol)) > MAX_SYMBOL_LEN

EncodersFailOnSymbolOnlyStep ==
    (IsEncode(decoder') /\ ~IsEncode(decoder)) =>
        /\ ~parsed'.ok <=> HasUnencodableSymbol(sent')
        /\ ~parsed'.ok => /\ parsed' = InvalidSymbol
                          /\ wire' = wire
        /\ parsed'.ok => /\ Len(wire') >= Len(wire) + 4
                         /\ SubSeq(wire', 1, Len(wire)) = wire

EncodersFailOnSymbolOnly == [][EncodersFailOnSymbolOnlyStep]_vars

\* the encoder refused a NewOrder of 33 symbol bytes and left the frame
\* that the buffer held as it was
EncodersFailOnSymbolOnlyWitness ==
    /\ decoder = "encode_input"
    /\ sent.type = "NewOrder"
    /\ sent.symbol = Sym33
    /\ sent.quantity = 0
    /\ parsed = InvalidSymbol
    /\ wire = FlushFrame

\* ------------------------------------------------------------------------
\* C34: books are independent.  A NewOrder for symbol A, or a Cancel routed
\* to symbol A, leaves the orders and the TOB cache of every other book
\* unchanged, and every output it produces carries symbol A; orders of
\* different symbols never trade with each other.
\* ------------------------------------------------------------------------
\* The symbol a message is routed to by the books and the index
RoutedSymbol(msg, index) ==
    IF msg.type = "NewOrder" THEN msg.symbol
    ELSE index[CancelKey(msg)]

IsRouted(msg, index) ==
    \/ msg.type = "NewOrder"
    \/ msg.type = "Cancel" /\ CancelKey(msg) \in DOMAIN index

BooksIndependentStep ==
    IsRouted(last_msg', order_to_symbol) =>
        LET a == RoutedSymbol(last_msg', order_to_symbol) IN
        /\ \A b \in DOMAIN order_books \ {a} :
            /\ b \in DOMAIN order_books'
            /\ order_books'[b] = order_books[b]
        /\ DOMAIN order_books' \subseteq DOMAIN order_books \cup {a}
        /\ \A i \in 1..Len(outputs') : outputs'[i].symbol = a
        /\ \A i \in 1..Len(fills') :
            /\ fills'[i].passive.symbol = a
            /\ fills'[i].incoming.symbol = a
            /\ fills'[i].passive \in BookOrders(order_books[a])
        /\ \A s \in DOMAIN order_books' :
            \A o \in BookOrders(order_books'[s]) : o.symbol = s

BooksIndependent == [][BooksIndependentStep]_vars

\* a Buy order came for one symbol while a Sell order of another symbol
\* rested at a price it crosses: no Trade, and it rests in its own book
BooksIndependentWitness ==
    /\ last_msg.type = "NewOrder"
    /\ last_msg.side = "Buy"
    /\ TradeIndexes(outputs) = {}
    /\ \E b \in DOMAIN order_books \ {last_msg.symbol} :
        \E o \in RestingOrders(order_books[b].asks) :
            o.price <= last_msg.price
    /\ \E o \in RestingOrders(order_books[last_msg.symbol].bids) :
        OrderKey(o) = CancelKey(last_msg)

\* ------------------------------------------------------------------------
\* C35: the engine is deterministic in its input sequence.  Two engines fed
\* the same sequence of InputMessages produce the same outputs and the same
\* books whatever timestamp_ns their orders get: timestamps never influence
\* the matching order, which is the FIFO insertion order.
\* ------------------------------------------------------------------------
\* A side of a book, a book and a set of books, less the timestamps
UnstampedLevels(levels) ==
    [p \in DOMAIN levels |->
        [i \in 1..Len(levels[p]) |->
            [levels[p][i] EXCEPT !.timestamp_ns = 0]]]

UnstampedBook(book) ==
    [book EXCEPT !.bids = UnstampedLevels(book.bids),
                 !.asks = UnstampedLevels(book.asks)]

Unstamped(books) == [s \in DOMAIN books |-> UnstampedBook(books[s])]

TimestampsNeverMatter ==
    last_msg.type # "None" =>
        /\ twin.outs = outputs
        /\ Unstamped(twin.books) = Unstamped(order_books)
        /\ twin.index = order_to_symbol

\* in the second engine the order at the front of a level got a later stamp
\* than the order behind it, and the last order traded with the front one
TimestampsNeverMatterWitness ==
    /\ last_msg.type = "NewOrder"
    /\ Len(fills) = 1
    /\ \E s \in DOMAIN twin.books : \E side \in Sides :
        \E p \in DOMAIN SideLevels(twin.books[s], side) :
            LET level == SideLevels(twin.books[s], side)[p] IN
            /\ Len(level) = 2
            /\ level[1].timestamp_ns > level[2].timestamp_ns
            /\ level[1].remaining_qty < level[1].quantity
            /\ OrderKey(level[1]) = OrderKey(fills[1].passive)

\* ------------------------------------------------------------------------
\* C36: in every reachable state of the router, each symbol that the
\* (user_id, user_order_id) -> symbol index holds as a value has a book in
\* order_books, so process_cancel never takes its branch for an index entry
\* whose book is missing.
\* ------------------------------------------------------------------------
IndexedBooksExist ==
    \A key \in DOMAIN order_to_symbol :
        order_to_symbol[key] \in DOMAIN order_books

\* a Cancel emptied a book that an index entry of another key still names
IndexedBooksExistWitness ==
    /\ last_msg.type = "Cancel"
    /\ \E key \in DOMAIN order_to_symbol :
        /\ key # CancelKey(last_msg)
        /\ order_to_symbol[key] = outputs[1].symbol
        /\ order_to_symbol[key] \in DOMAIN order_books
        /\ BookOrders(order_books[order_to_symbol[key]]) = {}
    /\ Len(outputs) = 2

\* ------------------------------------------------------------------------
\* C37: under any interleaving of the accept loop, the reader tasks and the
\* engine task, the registry never holds more than config.max_clients
\* clients: a connection accepted while the registry holds max_clients
\* entries is dropped without being registered.
\* ------------------------------------------------------------------------
RegistryWithinMaxStep ==
    /\ Cardinality(clients') <= max_clients
    /\ \A c \in ClientIds :
        /\ (tasks[c].reader = "none" /\ tasks'[c].reader # "none") =>
               IF Cardinality(clients) >= max_clients
               THEN tasks'[c].reader = "rejected" /\ clients' = clients
               ELSE tasks'[c].reader = "admitted"
        /\ tasks[c].reader = "rejected" =>
               tasks'[c].reader = "rejected" /\ c \notin clients'

RegistryWithinMax == [][RegistryWithinMaxStep]_vars

\* a connection was turned away by a full registry, while the engine task
\* was in the middle of a fan-out
RegistryWithinMaxWitness ==
    /\ \E c \in ClientIds : tasks[c].reader = "rejected"
    /\ Cardinality(clients) = max_clients
    /\ engine_task.pc = "fanout"

\* ------------------------------------------------------------------------
\* C38: a client that disconnects, or a send that fails on the outbound
\* channel of one client, never affects the engine: the engine task goes on
\* to process every later request and delivers all its outputs, in order,
\* to every other registered client; a client whose reader ends is
\* eventually removed from the registry.
\* ------------------------------------------------------------------------
\* Every client of a finished fan-out whose channel is open has got all the
\* outputs of the request, in the order of emission
OpenChannelsGetAll ==
    \A b \in CompletedBroadcasts : \A c \in b.to :
        tasks[c].writer = "running" =>
            /\ ReceivedOf(c, b.req) = 1..b.n
            /\ EmissionOrder(outbound[c])

\* The engine task has processed the n-th request
Processed(n) == Len(engine_task.log) >= n

EngineUnaffected ==
    /\ []OpenChannelsGetAll
    /\ \A n \in 1..MaxRequests :
        (arrived >= n) ~> (Processed(n) /\ engine_task.pc # "lock")
    /\ \A c \in ClientIds :
        (tasks[c].reader = "leaving") ~>
            (tasks[c].reader = "ended" /\ c \notin clients)

\* a send to a client whose writer task had ended failed, the reader of
\* that client ended and the client left the registry; the engine task
\* processed a later request and another client has got all its outputs
EngineUnaffectedWitness ==
    \E gone, other \in ClientIds :
        /\ gone # other
        /\ tasks[gone].writer = "ended"
        /\ tasks[gone].reader = "ended"
        /\ gone \notin clients
        /\ \E b \in CompletedBroadcasts :
            /\ gone \in b.to
            /\ ReceivedOf(gone, b.req) # 1..b.n
            /\ \E later \in CompletedBroadcasts :
                /\ later.req > b.req
                /\ later.n > 0
                /\ later.to = {other}
                /\ ReceivedOf(other, later.req) = 1..later.n

\* ------------------------------------------------------------------------
\* C39: on shutdown, after run has dropped its engine_tx and cleared the
\* client registry, the engine loop eventually observes the request channel
\* as closed and terminates, printing its statistics, even if some clients
\* are still connected at that moment.
\* ------------------------------------------------------------------------
EngineStopsOnShutdown ==
    (server = "cleared") ~> (engine_task.pc = "stopped")

\* ------------------------------------------------------------------------
\* C40: bind_with_port_bump terminates after at most 3 bind attempts,
\* trying port, port+1 and port+2 in that order and only while the error is
\* AddrInUse; any other bind error, or AddrInUse on the third attempt, is
\* returned immediately, and the port arithmetic never overflows u16.
\* ------------------------------------------------------------------------
\* The port bind_with_port_bump was called with
FirstPort ==
    IF listener.tried = <<>> THEN listener.port ELSE listener.tried[1].port

\* At most three attempts, on port, port+1 and port+2 in that order
AdjacentPortsTried ==
    /\ Len(listener.tried) = listener.attempts
    /\ listener.attempts <= 3
    /\ \A i \in 1..Len(listener.tried) :
        listener.tried[i].port = FirstPort + (i - 1)

\* Another attempt follows an AddrInUse that is not the third and nothing
\* else
RetriedOnAddrInUseOnly ==
    /\ \A i \in 1..(Len(listener.tried) - 1) :
        listener.tried[i].outcome = "AddrInUse"
    /\ server = "bind" =>
        /\ listener.attempts < 3
        /\ listener.tried # <<>> =>
            listener.tried[Len(listener.tried)].outcome = "AddrInUse"
    /\ server = "accept" =>
        listener.tried[Len(listener.tried)].outcome = "Ok"
    /\ server = "failed" =>
        LET last == listener.tried[Len(listener.tried)].outcome
        IN  /\ last \in BindErrors
            /\ last = "AddrInUse" => listener.attempts = 3

\* No port + 1 went beyond u16::MAX
NoPortOverflow ==
    /\ server # "panicked"
    /\ \A i \in 1..Len(listener.tried) :
        listener.tried[i].outcome = "AddrInUse" /\ i < 3 =>
            listener.tried[i].port + 1 <= U16_MAX

PortBumpWithinThree ==
    /\ AdjacentPortsTried
    /\ RetriedOnAddrInUseOnly
    /\ NoPortOverflow

====
